---- MODULE Spec2Model ----
(***************************************************************************)
(* Synchronization core of bschwind/sus: wraparound-safe sequence          *)
(* arithmetic over u16 counters, the server's authoritative lobby tick,    *)
(* per-player snapshots, and the client's input queue trimming.            *)
(***************************************************************************)
EXTENDS Integers, Sequences, FiniteSets, TLC

(***************************************************************************)
(* Integer widths.                                                         *)
(***************************************************************************)
U16Max == 65535
U16Mod == U16Max + 1
I16Max == 32767
I16Min == -32768

(***************************************************************************)
(* Sequence arithmetic: impl SequenceCmp for u16.  Rust evaluates && and   *)
(* || left to right with short circuit, as /\ and \/ are evaluated here;   *)
(* integer division truncates.                                             *)
(***************************************************************************)
max_half == (U16Max \div 2) - 1

\* a plausible slip: plain integer order, the wrap forgotten
sequentially_greater_than_linear(self, other) == self > other

\* a plausible slip: strict comparison on the forward half
sequentially_greater_than_strict(self, other) ==
    \/ (self > other /\ self - other < max_half)
    \/ (other > self /\ other - self > max_half)

sequentially_greater_than(self, other) ==
    \/ (self > other /\ self - other <= max_half)
    \/ (other > self /\ other - self > max_half)

\* a plausible slip: equality case forgotten
sequentially_greater_than_or_equal_to_noeq(self, other) ==
    \/ (self > other /\ self - other <= max_half)
    \/ (other > self /\ other - self > max_half)

sequentially_greater_than_or_equal_to(self, other) ==
    \/ self = other
    \/ (self > other /\ self - other <= max_half)
    \/ (other > self /\ other - self > max_half)

\* a plausible slip: the half boundary counted on both sides
sequentially_less_than_overlap(self, other) ==
    \/ (self < other /\ other - self <= max_half)
    \/ (self > other /\ self - other >= max_half)

sequentially_less_than(self, other) ==
    \/ (self < other /\ other - self <= max_half)
    \/ (self > other /\ self - other > max_half)

\* a plausible slip: the guards joined with & instead of &&, so that both
\* differences are computed whatever the order of the operands
sequentially_greater_than_subtractions_eager(self, other) == {self - other, other - self}

\* the differences sequentially_greater_than computes, as mathematical
\* integers: && evaluates its right side only when the left side holds, ||
\* only when the left side fails
sequentially_greater_than_subtractions(self, other) ==
    LET first == self > other /\ self - other <= max_half
    IN (IF self > other THEN {self - other} ELSE {})
       \cup (IF ~first /\ other > self THEN {other - self} ELSE {})

sequentially_greater_than_or_equal_to_subtractions(self, other) ==
    LET first == self = other
        second == self > other /\ self - other <= max_half
    IN (IF ~first /\ self > other THEN {self - other} ELSE {})
       \cup (IF ~first /\ ~second /\ other > self THEN {other - self} ELSE {})

sequentially_less_than_subtractions(self, other) ==
    LET first == self < other /\ other - self <= max_half
    IN (IF self < other THEN {other - self} ELSE {})
       \cup (IF ~first /\ self > other THEN {self - other} ELSE {})

\* a plausible slip: a plain addition, which leaves the range at 65535
wrapping_add_plain(a, k) == a + k

\* u16::wrapping_add
wrapping_add(a, k) == (a + k) % U16Mod

(***************************************************************************)
(* UnprocessedInputs::clear_acknowledged_inputs: pop from the front while  *)
(* the front's counter is acknowledged by input_ack.                       *)
(***************************************************************************)
RECURSIVE clear_acknowledged_inputs_reversed(_, _)
\* a plausible slip: the comparison turned around
clear_acknowledged_inputs_reversed(q, input_ack) ==
    IF Len(q) > 0 /\ sequentially_greater_than_or_equal_to(Head(q).counter, input_ack)
    THEN clear_acknowledged_inputs_reversed(Tail(q), input_ack)
    ELSE q

RECURSIVE clear_acknowledged_inputs_strict(_, _)
\* a plausible slip: the acknowledged entry itself kept
clear_acknowledged_inputs_strict(q, input_ack) ==
    IF Len(q) > 0 /\ sequentially_greater_than(input_ack, Head(q).counter)
    THEN clear_acknowledged_inputs_strict(Tail(q), input_ack)
    ELSE q

\* a plausible slip: `if` instead of `loop`, one entry popped at most
clear_acknowledged_inputs_once(q, input_ack) ==
    IF Len(q) > 0 /\ sequentially_greater_than_or_equal_to(input_ack, Head(q).counter)
    THEN Tail(q)
    ELSE q

RECURSIVE clear_acknowledged_inputs(_, _)
clear_acknowledged_inputs(q, input_ack) ==
    IF Len(q) > 0 /\ sequentially_greater_than_or_equal_to(input_ack, Head(q).counter)
    THEN clear_acknowledged_inputs(Tail(q), input_ack)
    ELSE q

\* PlayerInputPacket::new
PlayerInputPacket(counter, x, y) == [counter |-> counter, x |-> x, y |-> y]

(***************************************************************************)
(* Bounds of the model and the sample sets the inputs are drawn from.      *)
(***************************************************************************)
\* events the poll thread may hand to the server in one run
MaxEvents == 4
\* events waiting in the server's inbound channel at once
MaxRx == 2
\* Connect packets accepted in one run (each spawns a player entity)
MaxConnects == 2

Addrs == {"a1", "a2"}
PeerName(addr) == IF addr = "a1" THEN "Brian" ELSE "Ann"

\* counters carried by inbound PlayerInput packets: around zero, at the
\* half boundary, and close to the wrap
WireCounters == {0, 1, max_half, 2 * max_half}
\* axis samples as PlayerInput::x / PlayerInput::y produce them
WireAxes == {<<I16Max, 0>>, <<I16Min, I16Max>>}

(***************************************************************************)
(* State.                                                                  *)
(***************************************************************************)
VARIABLES
    \* server
    net_rx,             \* NetRx: SocketEvents queued by the poll thread
    new_player_events,  \* Events<NewPlayer>
    input_events,       \* Events<PlayerInput>
    players,            \* player entities in spawn order (ServerPlayerBundle)
    addr_to_player,     \* AddrToPlayer
    player_to_entity,   \* PlayerToEntity
    player_id_counter,  \* PlayerIdCounter
    outgoing_packets,   \* Events<OutgoingPacket>
    net_tx,             \* NetTx: packets handed to the socket
    sys,                \* the system of the server's fixed tick that runs next
    n_events,           \* events the poll thread has injected so far
    n_dropped,          \* history: PlayerInput packets network_receive discarded
    tx_last,            \* history of the last network_send: the attempts that
                        \* returned Err and, where recorded, the destinations served
    last_tick,          \* history: what the last update_lobby run saw, per entity
    applied_log,        \* history: counters applied so far, per entity
    \* client
    connected,          \* SusGame.connected
    input_counter,      \* InputCounter
    my_id,              \* MyPlayerId
    c_players,          \* displayed position per known player id
    c_unprocessed,      \* UnprocessedInputs (client): sent, not yet acknowledged
    c_outgoing,         \* Events<OutgoingPacket> (client)
    c_net_tx,           \* NetTx (client)
    c_net_rx,           \* NetRx (client)
    c_events,           \* decoded ServerToClient events of this tick
    c_pending,          \* ids whose spawn command is not applied yet (this tick's)
    c_sys,              \* the system of the client's fixed tick that runs next
    c_last_tick,        \* history: the last LobbyTick handle_lobby_tick processed
    c_trimmed,          \* history: counters removed from c_unprocessed by trimming
    \* sequence arithmetic applied to sampled operands
    sa, sb, sk, cmp,
    \* clear_acknowledged_inputs applied to sampled queues
    tq0, tack, tq1, tq, tphase,
    \* reconciliation of one client against one server player
    r_start,            \* the position both sides start from
    r_inputs,           \* the inputs the client has sent, all unacknowledged
    r_server,           \* the server's player entity
    r_client,           \* the client's queue and displayed position
    r_seen,             \* inputs the server had popped at the last reconciliation
    \* the receive loop of network_receive, one try_recv at a time
    d_pc,               \* "idle" between runs, "draining" inside the loop
    d_start,            \* history: the inbound queue when the run began
    d_seen,             \* history: the events the run has received so far
    \* the game state of the server
    game_state,         \* State<GameState>
    next_state          \* NextState<GameState>: the queued transition, if any

server_vars == <<net_rx, new_player_events, input_events, players, addr_to_player,
                 player_to_entity, player_id_counter, outgoing_packets, net_tx, sys,
                 n_events, n_dropped, tx_last, last_tick, applied_log>>

client_vars == <<connected, input_counter, my_id, c_players, c_unprocessed, c_outgoing,
                 c_net_tx, c_net_rx, c_events, c_pending, c_sys, c_last_tick, c_trimmed>>

seq_vars == <<sa, sb, sk, cmp>>

trim_vars == <<tq0, tack, tq1, tq, tphase>>

recon_vars == <<r_start, r_inputs, r_server, r_client, r_seen>>

drain_vars == <<d_pc, d_start, d_seen>>

state_vars == <<game_state, next_state>>

vars == <<server_vars, client_vars, seq_vars, trim_vars, recon_vars, drain_vars, state_vars>>

OthersUnchanged == UNCHANGED <<client_vars, seq_vars, trim_vars, recon_vars, drain_vars, state_vars>>

\* NormalizedInt for i16, on the axis values PlayerInput produces
normalized(v) == IF v < 0 THEN 0 - ((0 - v) \div (0 - I16Min)) ELSE v \div I16Max

EmptyMap == [a \in {} |-> 0]
MapPut(m, k, v) == [a \in DOMAIN m \cup {k} |-> IF a = k THEN v ELSE m[a]]
MapRemove(m, k) == [a \in DOMAIN m \ {k} |-> m[a]]

\* ServerPlayerBundle as new_player_joined spawns it
NoSends == [failed |-> {}, dests |-> <<>>]

ServerPlayerBundle(id, name, addr) ==
    [id |-> id, name |-> name, network_addr |-> addr,
     unprocessed_inputs |-> <<>>, position_history |-> <<>>,
     last_input_counter |-> 0, pos |-> <<0, 0>>]

\* the queues, the tick position and the history at start
ServerInitRest ==
    /\ outgoing_packets = <<>>
    /\ net_tx = <<>>
    /\ sys = "network_receive"
    /\ n_events = 0
    /\ n_dropped = 0
    /\ tx_last = NoSends
    /\ last_tick = <<>>
    /\ applied_log = <<>>

\* setup (systems/network.rs) and the empty event queues
ServerInit ==
    /\ net_rx = <<>>
    /\ new_player_events = <<>>
    /\ input_events = <<>>
    /\ players = <<>>
    /\ addr_to_player = EmptyMap
    /\ player_to_entity = EmptyMap
    /\ player_id_counter = 0
    /\ ServerInitRest

(***************************************************************************)
(* The poll thread: laminar hands SocketEvents to the inbound channel.     *)
(* Payloads are whatever a peer put on the wire.                           *)
(***************************************************************************)
ConnectMsg(name) == [kind |-> "Connect", name |-> name]
PlayerInputMsg(input) == [kind |-> "PlayerInput", input |-> input]
PacketEvent(addr, msg) == [type |-> "Packet", addr |-> addr, msg |-> msg]

ConnectsSeen ==
    Len(players) + Len(new_player_events)
    + Cardinality({i \in 1..Len(net_rx) :
                     net_rx[i].type = "Packet" /\ net_rx[i].msg.kind = "Connect"})

PollEnqueue(ev, budget) ==
    /\ n_events < budget
    /\ Len(net_rx) < MaxRx
    /\ net_rx' = Append(net_rx, ev)
    /\ n_events' = n_events + 1
    /\ UNCHANGED <<n_dropped, tx_last, new_player_events, input_events, players, addr_to_player,
                   player_to_entity, player_id_counter, outgoing_packets, net_tx,
                   sys, last_tick, applied_log>>
    /\ OthersUnchanged

PollConnect(addrs, budget) ==
    \E addr \in addrs :
        /\ ConnectsSeen < MaxConnects
        /\ PollEnqueue(PacketEvent(addr, ConnectMsg(PeerName(addr))), budget)

PollDisconnect(addrs, budget) ==
    \E addr \in addrs : PollEnqueue([type |-> "Disconnect", addr |-> addr], budget)

PollPlayerInput(addrs, counters, axes, budget) ==
    \E addr \in addrs, c \in counters, ax \in axes :
        PollEnqueue(PacketEvent(addr, PlayerInputMsg(PlayerInputPacket(c, ax[1], ax[2]))),
                    budget)

(***************************************************************************)
(* network_receive (server): drain the inbound channel with try_recv.      *)
(***************************************************************************)
RECURSIVE ReceiveAllUnfiltered(_, _)
\* a receive loop that forwards every PlayerInput, registered sender or not
ReceiveAllUnfiltered(evs, acc) ==
    IF evs = <<>> THEN acc
    ELSE LET ev == Head(evs)
             next ==
               IF ev.type = "Packet" THEN
                 IF ev.msg.kind = "Connect" THEN
                   [acc EXCEPT !.np = Append(@, [addr |-> ev.addr, name |-> ev.msg.name])]
                 ELSE IF ev.msg.kind = "PlayerInput" THEN
                   [acc EXCEPT !.inp = Append(@, [id |-> IF ev.addr \in DOMAIN acc.a2p
                                                         THEN acc.a2p[ev.addr] ELSE 0,
                                                  input |-> ev.msg.input])]
                 ELSE acc
               ELSE IF ev.type = "Disconnect" THEN
                 [acc EXCEPT !.a2p = MapRemove(@, ev.addr)]
               ELSE acc
         IN ReceiveAllUnfiltered(Tail(evs), next)

RECURSIVE ReceiveAllDropSender(_, _)
\* a plausible slip: a payload that does not decode unregisters its sender
ReceiveAllDropSender(evs, acc) ==
    IF evs = <<>> THEN acc
    ELSE LET ev == Head(evs)
             next ==
               IF ev.type = "Packet" THEN
                 IF ev.msg.kind = "Connect" THEN
                   [acc EXCEPT !.np = Append(@, [addr |-> ev.addr, name |-> ev.msg.name])]
                 ELSE IF ev.msg.kind = "PlayerInput" THEN
                   IF ev.addr \in DOMAIN acc.a2p
                   THEN [acc EXCEPT !.inp = Append(@, [id |-> acc.a2p[ev.addr],
                                                       input |-> ev.msg.input])]
                   ELSE acc
                 ELSE [acc EXCEPT !.a2p = MapRemove(@, ev.addr)]
               ELSE IF ev.type = "Disconnect" THEN
                 [acc EXCEPT !.a2p = MapRemove(@, ev.addr)]
               ELSE acc
         IN ReceiveAllDropSender(Tail(evs), next)

RECURSIVE ReceiveAll(_, _)
\* folds the drained events left to right over
\* [np: NewPlayer events, inp: PlayerInput events, a2p: AddrToPlayer]
ReceiveAll(evs, acc) ==
    IF evs = <<>> THEN acc
    ELSE LET ev == Head(evs)
             next ==
               IF ev.type = "Packet" THEN
                 IF ev.msg.kind = "Connect" THEN
                   [acc EXCEPT !.np = Append(@, [addr |-> ev.addr, name |-> ev.msg.name])]
                 ELSE IF ev.msg.kind = "PlayerInput" THEN
                   IF ev.addr \in DOMAIN acc.a2p
                   THEN [acc EXCEPT !.inp = Append(@, [id |-> acc.a2p[ev.addr],
                                                       input |-> ev.msg.input])]
                   ELSE acc
                 ELSE acc
               ELSE IF ev.type = "Disconnect" THEN
                 [acc EXCEPT !.a2p = MapRemove(@, ev.addr)]
               ELSE acc
         IN ReceiveAll(Tail(evs), next)

network_receive ==
    /\ sys = "network_receive"
    /\ LET r == ReceiveAll(net_rx, [np |-> new_player_events, inp |-> input_events,
                                    a2p |-> addr_to_player])
           received == Cardinality({i \in 1..Len(net_rx) :
                                      /\ net_rx[i].type = "Packet"
                                      /\ net_rx[i].msg.kind = "PlayerInput"})
       IN /\ new_player_events' = r.np
          /\ input_events' = r.inp
          /\ addr_to_player' = r.a2p
          /\ n_dropped' = n_dropped + received - (Len(r.inp) - Len(input_events))
    /\ net_rx' = <<>>
    /\ sys' = "handle_player_input"
    /\ UNCHANGED <<tx_last, players, player_to_entity, player_id_counter, outgoing_packets,
                   net_tx, n_events, last_tick, applied_log>>
    /\ OthersUnchanged

(***************************************************************************)
(* handle_player_input: append each PlayerInput event to the queue of the  *)
(* entity PlayerToEntity names.                                            *)
(***************************************************************************)
RECURSIVE PushInputsFront(_, _, _)
\* a handler that puts each new input at the front of the queue
PushInputsFront(evs, p2e, ents) ==
    IF evs = <<>> THEN ents
    ELSE LET ev == Head(evs)
             next ==
               IF ev.id \in DOMAIN p2e /\ p2e[ev.id] \in DOMAIN ents
               THEN [ents EXCEPT ![p2e[ev.id]].unprocessed_inputs = <<ev.input>> \o @]
               ELSE ents
         IN PushInputsFront(Tail(evs), p2e, next)

RECURSIVE PushInputsToFirst(_, _, _)
\* a plausible slip: the entity looked up without the id, the first one taken
PushInputsToFirst(evs, p2e, ents) ==
    IF evs = <<>> THEN ents
    ELSE LET ev == Head(evs)
             next ==
               IF ev.id \in DOMAIN p2e /\ p2e[ev.id] \in DOMAIN ents
               THEN [ents EXCEPT ![1].unprocessed_inputs = Append(@, ev.input)]
               ELSE ents
         IN PushInputsToFirst(Tail(evs), p2e, next)

RECURSIVE PushInputs(_, _, _)
PushInputs(evs, p2e, ents) ==
    IF evs = <<>> THEN ents
    ELSE LET ev == Head(evs)
             next ==
               IF ev.id \in DOMAIN p2e /\ p2e[ev.id] \in DOMAIN ents
               THEN [ents EXCEPT ![p2e[ev.id]].unprocessed_inputs = Append(@, ev.input)]
               ELSE ents
         IN PushInputs(Tail(evs), p2e, next)

handle_player_input ==
    /\ sys = "handle_player_input"
    /\ players' = PushInputs(input_events, player_to_entity, players)
    /\ input_events' = <<>>
    /\ sys' = "update_lobby"
    /\ UNCHANGED <<net_rx, new_player_events, addr_to_player, player_to_entity,
                   player_id_counter, outgoing_packets, net_tx, n_events, n_dropped, tx_last, last_tick, applied_log>>
    /\ OthersUnchanged

(***************************************************************************)
(* update_lobby: per player, pop the front input and apply it when its     *)
(* counter is sequentially greater than LastInputCounter.                  *)
(***************************************************************************)
\* transform.translation += velocity * 0.1, in units of one full step
Integrate(pos, input) == <<pos[1] + normalized(input.x), pos[2] + normalized(input.y)>>

\* a plausible slip: the counter test dropped, every popped input applied
StepPlayerUnchecked(p) ==
    IF p.unprocessed_inputs = <<>> THEN p
    ELSE LET input == Head(p.unprocessed_inputs)
         IN [p EXCEPT !.unprocessed_inputs = Tail(@),
                      !.last_input_counter = input.counter,
                      !.position_history = Append(@, p.pos),
                      !.pos = Integrate(p.pos, input)]

\* a plausible slip: the move made outside the counter test
StepPlayerMoveStale(p) ==
    IF p.unprocessed_inputs = <<>> THEN p
    ELSE LET input == Head(p.unprocessed_inputs)
             q == [p EXCEPT !.unprocessed_inputs = Tail(@),
                            !.pos = Integrate(p.pos, input)]
         IN IF sequentially_greater_than(input.counter, p.last_input_counter)
            THEN [q EXCEPT !.last_input_counter = input.counter,
                           !.position_history = Append(@, p.pos)]
            ELSE q

RECURSIVE StepPlayerBurst(_)
\* a plausible slip: `while let` instead of `if let`, the whole queue applied
StepPlayerBurst(p) ==
    IF p.unprocessed_inputs = <<>> THEN p
    ELSE LET input == Head(p.unprocessed_inputs)
             q == [p EXCEPT !.unprocessed_inputs = Tail(@)]
         IN StepPlayerBurst(
              IF sequentially_greater_than(input.counter, p.last_input_counter)
              THEN [q EXCEPT !.last_input_counter = input.counter,
                             !.position_history = Append(@, p.pos),
                             !.pos = Integrate(p.pos, input)]
              ELSE q)

\* a plausible slip: the pop made inside the counter test, a stale input
\* left at the front of the queue
StepPlayerKeepStale(p) ==
    IF p.unprocessed_inputs = <<>> THEN p
    ELSE LET input == Head(p.unprocessed_inputs)
         IN IF sequentially_greater_than(input.counter, p.last_input_counter)
            THEN [p EXCEPT !.unprocessed_inputs = Tail(@),
                           !.last_input_counter = input.counter,
                           !.position_history = Append(@, p.pos),
                           !.pos = Integrate(p.pos, input)]
            ELSE p

\* the body of the loop over players.iter_mut()
StepPlayer(p) ==
    IF p.unprocessed_inputs = <<>> THEN p
    ELSE LET input == Head(p.unprocessed_inputs)
             q == [p EXCEPT !.unprocessed_inputs = Tail(@)]
         IN IF sequentially_greater_than(input.counter, p.last_input_counter)
            THEN [q EXCEPT !.last_input_counter = input.counter,
                           !.position_history = Append(@, p.pos),
                           !.pos = Integrate(p.pos, input)]
            ELSE q

\* what the run saw for one entity: the length of its queue and whether the
\* popped input, if any, was applied
TickRecord(p) ==
    [queued |-> Len(p.unprocessed_inputs),
     outcome |-> IF p.unprocessed_inputs = <<>> THEN "none"
                 ELSE IF sequentially_greater_than(Head(p.unprocessed_inputs).counter,
                                                   p.last_input_counter)
                      THEN "applied" ELSE "stale"]

update_lobby ==
    /\ sys = "update_lobby"
    /\ players' = [e \in DOMAIN players |-> StepPlayer(players[e])]
    /\ last_tick' = [e \in DOMAIN players |-> TickRecord(players[e])]
    /\ applied_log' = [e \in DOMAIN players |->
                          IF TickRecord(players[e]).outcome = "applied"
                          THEN applied_log[e] \cup {Head(players[e].unprocessed_inputs).counter}
                          ELSE applied_log[e]]
    /\ sys' = "new_player_joined"
    /\ UNCHANGED <<net_rx, new_player_events, input_events, addr_to_player,
                   player_to_entity, player_id_counter, outgoing_packets, net_tx,
                   n_events, n_dropped, tx_last>>
    /\ OthersUnchanged

(***************************************************************************)
(* new_player_joined: one player per NewPlayer event; the spawn commands   *)
(* are applied after the system, so the existing_players query sees only   *)
(* the entities that existed when the system started.                      *)
(***************************************************************************)
Single(addr) == [kind |-> "Single", addr |-> addr]
BroadcastToAllExcept(addr) == [kind |-> "BroadcastToAllExcept", addr |-> addr]
BroadcastToAll == [kind |-> "BroadcastToAll"]
BroadcastToSet(addrs) == [kind |-> "BroadcastToSet", addrs |-> addrs]

OutgoingPacket(destination, packet, delivery_type, stream_id) ==
    [destination |-> destination, packet |-> packet,
     delivery_type |-> delivery_type, stream_id |-> stream_id]

GAME_STATE_STREAM == 1
INPUT_STREAM == 0

NewPlayerPacket(name, id) == [name |-> name, id |-> id]

ExistingPlayers == [e \in DOMAIN players |-> NewPlayerPacket(players[e].name, players[e].id)]

\* a plausible slip: the newcomer announced to the whole roster
JoinPacketsToAll(np, new_player_id) ==
    << OutgoingPacket(Single(np.addr), [kind |-> "ConnectAck", id |-> new_player_id],
                      "ReliableOrdered", GAME_STATE_STREAM),
       OutgoingPacket(Single(np.addr),
                      [kind |-> "FullGameState", players |-> ExistingPlayers],
                      "ReliableOrdered", GAME_STATE_STREAM),
       OutgoingPacket([kind |-> "BroadcastToAll"],
                      [kind |-> "NewPlayer", name |-> np.name, id |-> new_player_id],
                      "ReliableOrdered", GAME_STATE_STREAM) >>

\* a plausible slip: the ConnectAck sent with the delivery type of the ticks
JoinPacketsSequenced(np, new_player_id) ==
    LET reply == [kind |-> "ConnectAck", id |-> new_player_id]
        full_state_packet == [kind |-> "FullGameState", players |-> ExistingPlayers]
        new_player_packet == [kind |-> "NewPlayer", name |-> np.name,
                              id |-> new_player_id]
    IN << OutgoingPacket(Single(np.addr), reply,
                         "UnreliableSequenced", GAME_STATE_STREAM),
          OutgoingPacket(Single(np.addr), full_state_packet,
                         "ReliableOrdered", GAME_STATE_STREAM),
          OutgoingPacket(BroadcastToAllExcept(np.addr), new_player_packet,
                         "ReliableOrdered", GAME_STATE_STREAM) >>

\* the three messages sent for one NewPlayer event
JoinPackets(np, new_player_id) ==
    LET reply == [kind |-> "ConnectAck", id |-> new_player_id]
        full_state_packet == [kind |-> "FullGameState", players |-> ExistingPlayers]
        new_player_packet == [kind |-> "NewPlayer", name |-> np.name,
                              id |-> new_player_id]
    IN << OutgoingPacket(Single(np.addr), reply,
                         "ReliableOrdered", GAME_STATE_STREAM),
          OutgoingPacket(Single(np.addr), full_state_packet,
                         "ReliableOrdered", GAME_STATE_STREAM),
          OutgoingPacket(BroadcastToAllExcept(np.addr), new_player_packet,
                         "ReliableOrdered", GAME_STATE_STREAM) >>

RECURSIVE JoinAllNoIncrement(_, _)
\* a plausible slip: the increment lost
JoinAllNoIncrement(evs, acc) ==
    IF evs = <<>> THEN acc
    ELSE LET np == Head(evs)
             new_player_id == acc.ctr
             entity_id == Len(acc.ents) + 1
             next ==
               [ents |-> Append(acc.ents, ServerPlayerBundle(new_player_id, np.name, np.addr)),
                a2p |-> MapPut(acc.a2p, np.addr, new_player_id),
                p2e |-> MapPut(acc.p2e, new_player_id, entity_id),
                ctr |-> acc.ctr,
                out |-> acc.out \o JoinPackets(np, new_player_id)]
         IN JoinAllNoIncrement(Tail(evs), next)

RECURSIVE JoinAllPreIncrement(_, _)
\* a plausible slip: the counter incremented before it is read
JoinAllPreIncrement(evs, acc) ==
    IF evs = <<>> THEN acc
    ELSE LET np == Head(evs)
             new_player_id == acc.ctr + 1
             entity_id == Len(acc.ents) + 1
             next ==
               [ents |-> Append(acc.ents, ServerPlayerBundle(new_player_id, np.name, np.addr)),
                a2p |-> MapPut(acc.a2p, np.addr, new_player_id),
                p2e |-> MapPut(acc.p2e, new_player_id, entity_id),
                ctr |-> acc.ctr + 1,
                out |-> acc.out \o JoinPackets(np, new_player_id)]
         IN JoinAllPreIncrement(Tail(evs), next)

RECURSIVE JoinAll(_, _)
\* folds the drained NewPlayer events over
\* [ents, a2p, p2e, ctr, out]
JoinAll(evs, acc) ==
    IF evs = <<>> THEN acc
    ELSE LET np == Head(evs)
             new_player_id == acc.ctr
             entity_id == Len(acc.ents) + 1
             next ==
               [ents |-> Append(acc.ents, ServerPlayerBundle(new_player_id, np.name, np.addr)),
                a2p |-> MapPut(acc.a2p, np.addr, new_player_id),
                p2e |-> MapPut(acc.p2e, new_player_id, entity_id),
                ctr |-> acc.ctr + 1,
                out |-> acc.out \o JoinPackets(np, new_player_id)]
         IN JoinAll(Tail(evs), next)

new_player_joined ==
    /\ sys = "new_player_joined"
    /\ LET r == JoinAll(new_player_events,
                        [ents |-> players, a2p |-> addr_to_player,
                         p2e |-> player_to_entity, ctr |-> player_id_counter,
                         out |-> outgoing_packets])
       IN /\ players' = r.ents
          /\ addr_to_player' = r.a2p
          /\ player_to_entity' = r.p2e
          /\ player_id_counter' = r.ctr
          /\ outgoing_packets' = r.out
    /\ new_player_events' = <<>>
    /\ sys' = "send_new_state"
    /\ applied_log' = applied_log \o [i \in 1..Len(new_player_events) |-> {}]
    /\ UNCHANGED <<net_rx, input_events, net_tx, n_events, n_dropped, tx_last, last_tick>>
    /\ OthersUnchanged

(***************************************************************************)
(* send_new_state: one LobbyTick per player, carrying that player's        *)
(* LastInputCounter and the roster; every PositionHistory is cleared.      *)
(***************************************************************************)
\* a plausible slip: the history cleared before the roster list is built
LobbyPlayerCleared(p) == [id |-> p.id, pos |-> p.pos, pos_history |-> <<>>]

LobbyPlayer(p) == [id |-> p.id, pos |-> p.pos, pos_history |-> p.position_history]

LobbyTickPacket(last_input_counter, players_vec) ==
    [kind |-> "LobbyTick", last_input_counter |-> last_input_counter,
     players |-> players_vec]

\* one acknowledgment for the whole roster: the sequentially newest counter
TickForNewest(p, players_vec) ==
    LET counters == {players[e].last_input_counter : e \in DOMAIN players}
        newest == CHOOSE c \in counters :
                    \A d \in counters : sequentially_greater_than_or_equal_to(c, d)
    IN LobbyTickPacket(newest, players_vec)

\* every recipient is told the first roster entry's LastInputCounter
TickForFirst(p, players_vec) ==
    LobbyTickPacket(players[1].last_input_counter, players_vec)

\* the packet built for one recipient: its own LastInputCounter and the roster
TickFor(p, players_vec) == LobbyTickPacket(p.last_input_counter, players_vec)

\* a snapshot step that leaves the history in place
ClearHistoryKept(p) == p

\* position_history.0.clear()
ClearHistory(p) == [p EXCEPT !.position_history = <<>>]

send_new_state ==
    /\ sys = "send_new_state"
    /\ LET players_vec == [e \in DOMAIN players |-> LobbyPlayer(players[e])]
       IN outgoing_packets' = outgoing_packets \o
            [e \in DOMAIN players |->
               OutgoingPacket(Single(players[e].network_addr),
                              TickFor(players[e], players_vec),
                              "UnreliableSequenced", GAME_STATE_STREAM)]
    /\ players' = [e \in DOMAIN players |-> ClearHistory(players[e])]
    /\ sys' = "network_send"
    /\ UNCHANGED <<net_rx, new_player_events, input_events, addr_to_player,
                   player_to_entity, player_id_counter, net_tx, n_events, n_dropped, tx_last, last_tick, applied_log>>
    /\ OthersUnchanged

(***************************************************************************)
(* network_send (server): one transport packet per resolved destination.   *)
(***************************************************************************)
\* a constructor that sends everything unreliably
make_packet_unreliable(delivery_type, data, addr, stream) ==
    [addr |-> addr, payload |-> data, delivery |-> "Unreliable", stream |-> "none"]

\* make_packet
make_packet(delivery_type, data, addr, stream) ==
    [addr |-> addr, payload |-> data, delivery |-> delivery_type, stream |-> stream]

PlayerAddrs == [e \in DOMAIN players |-> players[e].network_addr]

\* a broadcast that never excludes anyone
DestinationsExceptIgnored(destination) ==
    IF destination.kind = "Single" THEN <<destination.addr>>
    ELSE IF destination.kind \in {"BroadcastToAll", "BroadcastToAllExcept"} THEN PlayerAddrs
    ELSE destination.addrs

Destinations(destination) ==
    IF destination.kind = "Single" THEN <<destination.addr>>
    ELSE IF destination.kind = "BroadcastToAll" THEN PlayerAddrs
    ELSE IF destination.kind = "BroadcastToAllExcept"
         THEN LET keep(a) == a # destination.addr IN SelectSeq(PlayerAddrs, keep)
    ELSE destination.addrs

PacketsOf(outgoing) ==
    LET dests == Destinations(outgoing.destination)
    IN [i \in DOMAIN dests |->
          make_packet(outgoing.delivery_type, outgoing.packet, dests[i], outgoing.stream_id)]

RECURSIVE SendAll(_)
SendAll(out) == IF out = <<>> THEN <<>> ELSE PacketsOf(Head(out)) \o SendAll(Tail(out))

\* net_tx.send(..).expect(..) of handle_new_player (src/server/src/main.rs):
\* the first send that returns Err panics, the later ones are never made
AcceptedUntilFailure(attempts, failed) ==
    LET first == IF failed \cap DOMAIN attempts = {} THEN Len(attempts) + 1
                 ELSE CHOOSE f \in failed \cap DOMAIN attempts :
                        \A g \in failed \cap DOMAIN attempts : f <= g
    IN SubSeq(attempts, 1, first - 1)

\* if let Err(e) = net_tx.send(packet) { println!(..) }: a failed attempt is
\* logged and the loop goes on; the channel keeps the packets it accepted
Accepted(attempts, failed) ==
    LET indices == [i \in DOMAIN attempts |-> i]
        ok(i) == i \notin failed
        kept == SelectSeq(indices, ok)
    IN [k \in DOMAIN kept |-> attempts[kept[k]]]

\* one run of network_send in which the attempts numbered in failed return
\* Err; recorded says whether the history keeps the destinations of the run
network_send_failing(failed, recorded) ==
    /\ sys = "network_send"
    /\ net_tx' = net_tx \o Accepted(SendAll(outgoing_packets), failed)
    /\ tx_last' = [failed |-> failed,
                   dests |-> IF recorded
                             THEN [k \in DOMAIN outgoing_packets |->
                                     outgoing_packets[k].destination]
                             ELSE <<>>]
    /\ outgoing_packets' = <<>>
    /\ sys' = "network_receive"
    /\ UNCHANGED <<net_rx, new_player_events, input_events, players, addr_to_player,
                   player_to_entity, player_id_counter, n_events, n_dropped, last_tick, applied_log>>
    /\ OthersUnchanged

\* the receiving end of NetTx lives in the polling thread: while that thread
\* runs, no send fails
network_send == network_send_failing({}, FALSE)

(***************************************************************************)
(* The client.  Its tick runs send_input_to_server, network_receive, the   *)
(* event handlers and network_send.                                        *)
(***************************************************************************)
ClientAddr == "a1"
\* inputs the client sends in one run
MaxClientInputs == 2
\* axis sample of the local player: moving right
ClientAxes == {<<I16Max, 0>>}

\* MyPlayerId(None)
NoPlayer == 0 - 1

\* what init sets up beside the input counter
ClientInitRest ==
    /\ connected = FALSE
    /\ my_id = NoPlayer
    /\ c_players = EmptyMap
    /\ c_unprocessed = <<>>
    /\ c_outgoing = <<>>
    \* initialize_network hands the Connect packet to the socket
    /\ c_net_tx = << [addr |-> "server", payload |-> ConnectMsg(PeerName(ClientAddr)),
                      delivery |-> "ReliableOrdered", stream |-> "none"] >>
    /\ c_net_rx = <<>>
    /\ c_events = <<>>
    /\ c_pending = {}
    /\ c_sys = "send_input_to_server"
    /\ c_last_tick = <<>>
    /\ c_trimmed = {}

\* init and initialize_network (client/src/main.rs): InputCounter(0)
ClientInit ==
    /\ input_counter = 0
    /\ ClientInitRest

ServerUnchanged == UNCHANGED <<server_vars, seq_vars, trim_vars, recon_vars, drain_vars, state_vars>>

\* the local bookkeeping the send step does beside sending: append the
\* packet to UnprocessedInputs and predict the local player's position
ClientRecordInput(input) ==
    /\ c_unprocessed' = Append(c_unprocessed, input)
    /\ c_players' = IF my_id \in DOMAIN c_players
                    THEN [c_players EXCEPT ![my_id] = Integrate(@, input)]
                    ELSE c_players

\* inputs sent since the counter stood at start
SentSince(start) == (input_counter + U16Mod - start) % U16Mod

\* send_input_to_server in a run whose counter began at start
send_input_to_server_from(start) ==
    /\ c_sys = "send_input_to_server"
    /\ SentSince(start) < MaxClientInputs
    /\ \E ax \in ClientAxes :
         LET input_packet == PlayerInputPacket(input_counter, ax[1], ax[2])
         \* socket.send(Packet::unreliable_sequenced(server_addr, msg, INPUT_STREAM))
         IN /\ c_net_tx' = Append(c_net_tx,
                                  [addr |-> "server",
                                   payload |-> PlayerInputMsg(input_packet),
                                   delivery |-> "UnreliableSequenced",
                                   stream |-> INPUT_STREAM])
            /\ ClientRecordInput(input_packet)
    /\ input_counter' = wrapping_add(input_counter, 1)
    /\ c_sys' = "network_receive"
    /\ UNCHANGED <<connected, my_id, c_outgoing, c_net_rx, c_events, c_pending, c_last_tick,
                   c_trimmed>>
    /\ ServerUnchanged

send_input_to_server == send_input_to_server_from(0)

\* the run's input budget is spent: the tick goes on without a new input
ClientIdleFrom(start) ==
    /\ c_sys = "send_input_to_server"
    /\ SentSince(start) >= MaxClientInputs
    /\ c_sys' = "network_receive"
    /\ UNCHANGED <<connected, input_counter, my_id, c_players, c_unprocessed, c_outgoing,
                   c_net_tx, c_net_rx, c_events, c_pending, c_last_tick, c_trimmed>>
    /\ ServerUnchanged

ClientIdle == ClientIdleFrom(0)

\* network_receive (client): drain the channel; packets from the server
\* address are decoded into events, ConnectAck sets connected
ServerAddr == "server"

\* a plausible slip: the sender's address not compared with server_addr
FromAnyone(evs) ==
    LET keep(ev) == ev.type = "Packet" /\ ev.msg.kind # "Invalid"
    IN SelectSeq(evs, keep)

FromServer(evs) ==
    LET keep(ev) == ev.type = "Packet" /\ ev.addr = ServerAddr /\ ev.msg.kind # "Invalid"
    IN SelectSeq(evs, keep)

client_network_receive ==
    /\ c_sys = "network_receive"
    /\ LET decoded == FromServer(c_net_rx)
       IN /\ c_events' = [i \in DOMAIN decoded |-> decoded[i].msg]
          /\ connected' = (connected \/ \E i \in DOMAIN decoded :
                                          decoded[i].msg.kind = "ConnectAck")
    /\ c_net_rx' = <<>>
    /\ c_sys' = "handle_connect_ack"
    /\ UNCHANGED <<input_counter, my_id, c_players, c_unprocessed, c_outgoing, c_net_tx,
                   c_pending, c_last_tick, c_trimmed>>
    /\ ServerUnchanged

OfKind(evs, kind) == LET keep(m) == m.kind = kind IN SelectSeq(evs, keep)

RECURSIVE SpawnAll(_, _)
\* spawn a ClientPlayerBundle at Vec3::ZERO per id and enter it in PlayerToEntity
SpawnAll(ids, m) ==
    IF ids = <<>> THEN m ELSE SpawnAll(Tail(ids), MapPut(m, Head(ids), <<0, 0>>))

handle_connect_ack ==
    /\ c_sys = "handle_connect_ack"
    /\ LET acks == OfKind(c_events, "ConnectAck")
       IN /\ c_players' = SpawnAll([i \in DOMAIN acks |-> acks[i].id], c_players)
          /\ c_pending' = c_pending \cup {acks[i].id : i \in DOMAIN acks}
          /\ my_id' = IF acks = <<>> THEN my_id ELSE acks[Len(acks)].id
    /\ c_sys' = "handle_full_game_state"
    /\ UNCHANGED <<connected, input_counter, c_unprocessed, c_outgoing, c_net_tx, c_net_rx,
                   c_events, c_last_tick, c_trimmed>>
    /\ ServerUnchanged

RECURSIVE Flatten(_)
Flatten(ss) == IF ss = <<>> THEN <<>> ELSE Head(ss) \o Flatten(Tail(ss))

handle_full_game_state ==
    /\ c_sys = "handle_full_game_state"
    /\ LET fgs == OfKind(c_events, "FullGameState")
           listed == Flatten([i \in DOMAIN fgs |-> fgs[i].players])
       IN /\ c_players' = SpawnAll([i \in DOMAIN listed |-> listed[i].id], c_players)
          /\ c_pending' = c_pending \cup {listed[i].id : i \in DOMAIN listed}
    /\ c_sys' = "new_player_joined"
    /\ UNCHANGED <<connected, input_counter, my_id, c_unprocessed, c_outgoing, c_net_tx,
                   c_net_rx, c_events, c_last_tick, c_trimmed>>
    /\ ServerUnchanged

client_new_player_joined ==
    /\ c_sys = "new_player_joined"
    /\ LET nps == OfKind(c_events, "NewPlayer")
       IN /\ c_players' = SpawnAll([i \in DOMAIN nps |-> nps[i].id], c_players)
          /\ c_pending' = c_pending \cup {nps[i].id : i \in DOMAIN nps}
    /\ c_sys' = "handle_lobby_tick"
    /\ UNCHANGED <<connected, input_counter, my_id, c_unprocessed, c_outgoing, c_net_tx,
                   c_net_rx, c_events, c_last_tick, c_trimmed>>
    /\ ServerUnchanged

\* handle_lobby_tick: every listed player whose entity PlayerToEntity names
\* and the query finds (spawned before this tick) is moved to the snapshot
\* position
RECURSIVE SetPositions(_, _)
SetPositions(listed, m) ==
    IF listed = <<>> THEN m
    ELSE LET player == Head(listed)
         IN SetPositions(Tail(listed),
                         IF player.id \in DOMAIN m /\ player.id \notin c_pending
                         THEN [m EXCEPT ![player.id] = player.pos]
                         ELSE m)

RECURSIVE ApplyTicks(_, _)
ApplyTicks(ticks, m) ==
    IF ticks = <<>> THEN m
    ELSE ApplyTicks(Tail(ticks), SetPositions(Head(ticks).players, m))

\* the queue after trimming with the acknowledgment of each tick in turn
RECURSIVE TrimByTicks(_, _)
TrimByTicks(ticks, q) ==
    IF ticks = <<>> THEN q
    ELSE TrimByTicks(Tail(ticks),
                     clear_acknowledged_inputs(q, Head(ticks).last_input_counter))

CountersOf(q) == {q[i].counter : i \in DOMAIN q}

handle_lobby_tick ==
    /\ c_sys = "handle_lobby_tick"
    /\ LET ticks == OfKind(c_events, "LobbyTick")
           trimmed == TrimByTicks(ticks, c_unprocessed)
       IN /\ c_unprocessed' = trimmed
          /\ c_trimmed' = c_trimmed \cup (CountersOf(c_unprocessed) \ CountersOf(trimmed))
          /\ c_players' = ApplyTicks(ticks, c_players)
          /\ c_last_tick' = IF ticks = <<>> THEN <<>> ELSE <<ticks[Len(ticks)]>>
    /\ c_events' = <<>>
    /\ c_sys' = "network_send"
    /\ UNCHANGED <<connected, input_counter, my_id, c_outgoing, c_net_tx, c_net_rx,
                   c_pending>>
    /\ ServerUnchanged

\* network_send (client): drains the OutgoingPacket events; a PlayerInput
\* event is discarded while not connected.  init and send_input_to_server
\* hand their packets to the socket themselves, so no event reaches it.
client_network_send ==
    /\ c_sys = "network_send"
    /\ LET pass(o) == ~(~connected /\ o.packet.kind = "PlayerInput")
           sent == SelectSeq(c_outgoing, pass)
       IN c_net_tx' = c_net_tx \o
            [i \in DOMAIN sent |->
               make_packet(sent[i].delivery_type, sent[i].packet, ServerAddr,
                           sent[i].stream_id)]
    /\ c_outgoing' = <<>>
    /\ c_pending' = {}
    /\ c_sys' = "send_input_to_server"
    /\ UNCHANGED <<connected, input_counter, my_id, c_players, c_unprocessed, c_net_rx,
                   c_events, c_last_tick, c_trimmed>>
    /\ ServerUnchanged

(***************************************************************************)
(* The transport between the two sockets.  Packets of one stream arrive in *)
(* the order sent; an unreliable packet may be lost.                       *)
(***************************************************************************)
Reliable(packet) == packet.delivery \in {"ReliableOrdered", "ReliableSequenced",
                                         "ReliableUnordered"}

\* the server's socket sends the oldest queued packet
ServerTransmit ==
    /\ net_tx # <<>>
    /\ LET packet == Head(net_tx)
       IN \/ /\ packet.addr = ClientAddr
             /\ Len(c_net_rx) < MaxRx
             /\ c_net_rx' = Append(c_net_rx, PacketEvent(ServerAddr, packet.payload))
          \/ /\ packet.addr # ClientAddr \/ ~Reliable(packet)
             /\ c_net_rx' = c_net_rx
    /\ net_tx' = Tail(net_tx)
    /\ UNCHANGED <<net_rx, new_player_events, input_events, players, addr_to_player,
                   player_to_entity, player_id_counter, outgoing_packets, sys, n_events, n_dropped, tx_last,
                   last_tick, applied_log>>
    /\ UNCHANGED <<connected, input_counter, my_id, c_players, c_unprocessed, c_outgoing,
                   c_net_tx, c_events, c_pending, c_sys, c_last_tick, c_trimmed>>
    /\ UNCHANGED <<seq_vars, trim_vars, recon_vars, drain_vars, state_vars>>

\* the client's socket sends the oldest queued packet
ClientTransmit ==
    /\ c_net_tx # <<>>
    /\ LET packet == Head(c_net_tx)
       IN \/ /\ Len(net_rx) < MaxRx
             /\ net_rx' = Append(net_rx, PacketEvent(ClientAddr, packet.payload))
          \/ /\ ~Reliable(packet)
             /\ net_rx' = net_rx
    /\ c_net_tx' = Tail(c_net_tx)
    /\ UNCHANGED <<new_player_events, input_events, players, addr_to_player,
                   player_to_entity, player_id_counter, outgoing_packets, net_tx, sys,
                   n_events, n_dropped, tx_last, last_tick, applied_log>>
    /\ UNCHANGED <<connected, input_counter, my_id, c_players, c_unprocessed, c_outgoing,
                   c_net_rx, c_events, c_pending, c_sys, c_last_tick, c_trimmed>>
    /\ UNCHANGED <<seq_vars, trim_vars, recon_vars, drain_vars, state_vars>>

\* the server's socket sends everything queued to peers outside the model
ServerFlush ==
    /\ net_tx # <<>>
    /\ net_tx' = <<>>
    /\ UNCHANGED <<net_rx, new_player_events, input_events, players, addr_to_player,
                   player_to_entity, player_id_counter, outgoing_packets, sys, n_events, n_dropped, tx_last,
                   last_tick, applied_log>>
    /\ OthersUnchanged

(***************************************************************************)
(* Sequence arithmetic and queue trimming applied to sampled operands.     *)
(***************************************************************************)
\* operands within SeqSpan of 0, of the half boundary and of u16::MAX
SeqSpan == 2
SeqSamples ==
    (0 .. SeqSpan) \cup ((I16Max - SeqSpan) .. (I16Max + SeqSpan + 1))
                   \cup ((U16Max - SeqSpan) .. U16Max)
\* distances within SeqSpan of 1 and of max_half
SeqSteps == (1 .. (1 + SeqSpan)) \cup ((max_half - SeqSpan) .. max_half)

\* longest queue handed to clear_acknowledged_inputs
MaxTrimLen == 3
TrimCounters == {0, 1, 2, max_half, max_half + 2, U16Max}
TrimEntries == {PlayerInputPacket(c, 0, 0) : c \in TrimCounters}
RECURSIVE SeqsUpTo(_, _)
SeqsUpTo(S, n) ==
    IF n = 0 THEN {<<>>}
    ELSE LET shorter == SeqsUpTo(S, n - 1)
         IN shorter \cup {Append(q, x) : q \in {r \in shorter : Len(r) = n - 1}, x \in S}

IdleServer == ServerInit
IdleClient == ClientInit
IdleSeq == sa = 0 /\ sb = 0 /\ sk = 1 /\ cmp = {}
IdleTrim == tq0 = <<>> /\ tack = 0 /\ tq1 = <<>> /\ tq = <<>> /\ tphase = 0
\* GameState: #[default] Lobby, no transition queued
IdleState == game_state = "Lobby" /\ next_state = "None"
IdleDrain == d_pc = "idle" /\ d_start = <<>> /\ d_seen = <<>>
IdleRecon ==
    /\ r_start = <<0, 0>>
    /\ r_inputs = <<>>
    /\ r_server = ServerPlayerBundle(0, PeerName(ClientAddr), ClientAddr)
    /\ r_client = [queue |-> <<>>, pos |-> <<0, 0>>]
    /\ r_seen = 0

SeqInit ==
    /\ sa \in SeqSamples
    /\ sb \in SeqSamples
    /\ sk \in SeqSteps
    /\ cmp = {}
    /\ IdleServer /\ IdleClient /\ IdleTrim /\ IdleRecon /\ IdleDrain /\ IdleState

Compare ==
    /\ cmp = {}
    /\ cmp' = {[gt |-> sequentially_greater_than(sa, sb),
                ge |-> sequentially_greater_than_or_equal_to(sa, sb),
                lt |-> sequentially_less_than(sa, sb),
                lt_rev |-> sequentially_less_than(sb, sa),
                succ_gt |-> sequentially_greater_than(wrapping_add(sa, sk), sa),
                shift_gt |-> sequentially_greater_than(wrapping_add(sa, sk),
                                                       wrapping_add(sb, sk)),
                subs |-> sequentially_greater_than_subtractions(sa, sb)
                         \cup sequentially_greater_than_or_equal_to_subtractions(sa, sb)
                         \cup sequentially_less_than_subtractions(sa, sb)]}
    /\ UNCHANGED <<sa, sb, sk>>
    /\ UNCHANGED <<server_vars, client_vars, trim_vars, recon_vars, drain_vars, state_vars>>

SeqNext == Compare

SeqSpec == SeqInit /\ [][SeqNext]_vars

TrimInit ==
    /\ tq0 \in SeqsUpTo(TrimEntries, MaxTrimLen)
    /\ tack \in TrimCounters
    /\ tq1 = tq0
    /\ tq = tq0
    /\ tphase = 0
    /\ IdleServer /\ IdleClient /\ IdleSeq /\ IdleRecon /\ IdleDrain /\ IdleState

\* clear_acknowledged_inputs(tack), once and then once more
Clear ==
    /\ tphase < 2
    /\ tq' = clear_acknowledged_inputs(tq, tack)
    /\ tq1' = IF tphase = 0 THEN tq' ELSE tq1
    /\ tphase' = tphase + 1
    /\ UNCHANGED <<tq0, tack>>
    /\ UNCHANGED <<server_vars, client_vars, seq_vars, recon_vars, drain_vars, state_vars>>

TrimNext == Clear

TrimSpec == TrimInit /\ [][TrimNext]_vars

(***************************************************************************)
(* The server with peers that only connect, one new address after another. *)
(***************************************************************************)
MAX_PLAYERS == 16
\* the peers in the order they connect, one more than the server should hold
JoinPeers == <<"a1", "a2", "a3", "a4", "a5", "a6", "a7", "a8", "a9", "a10", "a11", "a12",
               "a13", "a14", "a15", "a16", "a17">>

PollJoin ==
    /\ ConnectsSeen < Len(JoinPeers)
    /\ LET addr == JoinPeers[ConnectsSeen + 1]
       IN PollEnqueue(PacketEvent(addr, ConnectMsg(PeerName(addr))), Len(JoinPeers))

JoinInit == ServerInit /\ IdleClient /\ IdleSeq /\ IdleTrim /\ IdleRecon /\ IdleDrain /\ IdleState

JoinNext ==
    \/ (sys = "network_receive" /\ net_tx = <<>> /\ PollJoin)
    \/ (net_tx = <<>> /\ network_receive)
    \/ handle_player_input
    \/ update_lobby
    \/ new_player_joined
    \/ send_new_state
    \/ network_send
    \/ ServerFlush

JoinSpec == JoinInit /\ [][JoinNext]_vars

(***************************************************************************)
(* The dispatcher alone: network_send run once on a roster and a list of   *)
(* outgoing messages drawn from every PacketDestination.                   *)
(***************************************************************************)
\* players in the roster, and addresses in a BroadcastToSet list
MaxRoster == 2
MaxSet == 2

SendRosters == SeqsUpTo(Addrs, MaxRoster)

SendDestinations ==
    {Single(a) : a \in Addrs} \cup {BroadcastToAll}
    \cup {BroadcastToAllExcept(a) : a \in Addrs}
    \cup {BroadcastToSet(addrs) : addrs \in SeqsUpTo(Addrs, MaxSet)}

\* a reliable and an unreliable message
SendMessages ==
    {OutgoingPacket(d, [kind |-> "ConnectAck", id |-> 0], "ReliableOrdered", "none") :
        d \in SendDestinations}
    \cup {OutgoingPacket(d, LobbyTickPacket(0, <<>>), "UnreliableSequenced",
                         GAME_STATE_STREAM) : d \in SendDestinations}

RECURSIVE RosterTable(_, _)
\* AddrToPlayer after the roster's players joined in order
RosterTable(roster, e) ==
    IF e = 0 THEN EmptyMap ELSE MapPut(RosterTable(roster, e - 1), roster[e], e - 1)

SendInit ==
    /\ \E roster \in SendRosters :
         /\ players = [e \in DOMAIN roster |->
                         ServerPlayerBundle(e - 1, PeerName(roster[e]), roster[e])]
         /\ addr_to_player = RosterTable(roster, Len(roster))
         /\ player_to_entity = [id \in 0..(Len(roster) - 1) |-> id + 1]
         /\ player_id_counter = Len(roster)
         /\ applied_log = [e \in DOMAIN roster |-> {}]
    /\ \E first \in SendMessages : \E rest \in {<<>>} \cup {<<m>> : m \in SendMessages} :
         outgoing_packets = <<first>> \o rest
    /\ sys = "network_send"
    /\ net_rx = <<>>
    /\ new_player_events = <<>>
    /\ input_events = <<>>
    /\ net_tx = <<>>
    /\ n_events = 0
    /\ n_dropped = 0
    /\ tx_last = NoSends
    /\ last_tick = <<>>
    /\ IdleClient /\ IdleSeq /\ IdleTrim /\ IdleRecon /\ IdleDrain /\ IdleState

\* any subset of the run's send attempts may fail
SendNext ==
    \/ \E failed \in SUBSET (1..Len(SendAll(outgoing_packets))) : network_send_failing(failed, TRUE)
    \/ ServerFlush

SendSpec == SendInit /\ [][SendNext]_vars

(***************************************************************************)
(* The receive loop of network_receive taken one try_recv at a time, with  *)
(* the polling thread enqueueing at any moment, followed by the rest of    *)
(* the tick.                                                               *)
(***************************************************************************)
\* events the polling thread delivers in one run
DrainEvents == 3
DrainPeers == {"a1"}
DrainCounters == {1}
DrainAxes == {<<I16Max, 0>>}

\* a payload bincode cannot decode as ClientToServer
InvalidMsg == [kind |-> "Invalid"]

PollInvalid(addrs, budget) ==
    \E addr \in addrs : PollEnqueue(PacketEvent(addr, InvalidMsg), budget)

\* server.net_rx.recv() of update_network (src/server/src/main.rs) returns
\* only once an event is there
RecvReturnsWhenReady(queue) == queue # <<>>

\* net_rx.try_recv() returns at once, with an event or with Err(Empty)
RecvReturns(queue) == TRUE

\* while let Ok(event) = net_rx.try_recv(): the loop ends when try_recv
\* finds the channel empty
LoopExits(seen, queue) == queue = <<>>

\* network_receive is entered
drain_enter ==
    /\ sys = "network_receive"
    /\ d_pc = "idle"
    /\ d_pc' = "draining"
    /\ d_start' = net_rx
    /\ d_seen' = <<>>
    /\ UNCHANGED <<server_vars, client_vars, seq_vars, trim_vars, recon_vars, state_vars>>

\* try_recv returns Ok(event): the event is matched as in network_receive
drain_try_recv_ok ==
    /\ sys = "network_receive"
    /\ d_pc = "draining"
    /\ RecvReturns(net_rx)
    /\ ~LoopExits(d_seen, net_rx)
    /\ LET event == Head(net_rx)
           r == ReceiveAll(<<event>>, [np |-> new_player_events, inp |-> input_events,
                                       a2p |-> addr_to_player])
           is_input == event.type = "Packet" /\ event.msg.kind = "PlayerInput"
       IN /\ new_player_events' = r.np
          /\ input_events' = r.inp
          /\ addr_to_player' = r.a2p
          /\ n_dropped' = IF is_input /\ r.inp = input_events
                          THEN n_dropped + 1 ELSE n_dropped
          /\ d_seen' = Append(d_seen, event)
    /\ net_rx' = Tail(net_rx)
    /\ UNCHANGED <<tx_last, players, player_to_entity, player_id_counter, outgoing_packets,
                   net_tx, sys, n_events, last_tick, applied_log, d_pc, d_start>>
    /\ UNCHANGED <<client_vars, seq_vars, trim_vars, recon_vars, state_vars>>

\* try_recv returns Err: the loop and the system end
drain_try_recv_empty ==
    /\ sys = "network_receive"
    /\ d_pc = "draining"
    /\ RecvReturns(net_rx)
    /\ LoopExits(d_seen, net_rx)
    /\ d_pc' = "idle"
    /\ sys' = "handle_player_input"
    /\ UNCHANGED <<net_rx, new_player_events, input_events, players, addr_to_player,
                   player_to_entity, player_id_counter, outgoing_packets, net_tx,
                   n_events, n_dropped, tx_last, last_tick, applied_log, d_start, d_seen>>
    /\ UNCHANGED <<client_vars, seq_vars, trim_vars, recon_vars, state_vars>>

DrainInit == ServerInit /\ IdleClient /\ IdleSeq /\ IdleTrim /\ IdleRecon /\ IdleDrain /\ IdleState

\* the steps of the simulation thread; the socket thread has sent the last
\* tick's packets when the next tick starts
DrainTick ==
    \/ (net_tx = <<>> /\ drain_enter)
    \/ drain_try_recv_ok
    \/ drain_try_recv_empty
    \/ handle_player_input
    \/ update_lobby
    \/ new_player_joined
    \/ send_new_state
    \/ network_send

\* the polling thread runs beside it
DrainNext ==
    \/ PollConnect(DrainPeers, DrainEvents)
    \/ PollPlayerInput(DrainPeers, DrainCounters, DrainAxes, DrainEvents)
    \/ PollInvalid(DrainPeers, DrainEvents)
    \/ DrainTick
    \/ ServerFlush

DrainSpec == DrainInit /\ [][DrainNext]_vars

\* the fixed timestep keeps running the simulation thread and the socket
\* thread keeps sending; nothing is assumed about arrivals
DrainFairSpec == DrainSpec /\ WF_vars(DrainTick) /\ WF_vars(ServerFlush)

(***************************************************************************)
(* The server loop of src/server/src/main.rs: update_network,              *)
(* handle_player_input and handle_new_player run once per fixed timestep   *)
(* on the players map of SusServer.                                        *)
(***************************************************************************)
\* events the polling thread delivers in one run
MainEvents == 4
MainPeers == {"a1", "a2"}

\* update_network is entered
update_network_enter ==
    /\ sys = "network_receive"
    /\ d_pc = "idle"
    /\ d_pc' = "draining"
    /\ d_start' = net_rx
    /\ d_seen' = <<>>
    /\ UNCHANGED <<server_vars, client_vars, seq_vars, trim_vars, recon_vars, state_vars>>

\* the match on the one event recv() returned; players is the map from
\* address to Player
update_network_match(event) ==
    LET has(addr) == \E e \in DOMAIN players : players[e].network_addr = addr
        player(addr) == players[CHOOSE e \in DOMAIN players : players[e].network_addr = addr]
        other(p) == p.network_addr # event.addr
    IN /\ new_player_events' =
              IF event.type = "Packet" /\ event.msg.kind = "Connect"
              THEN Append(new_player_events, [addr |-> event.addr, name |-> event.msg.name])
              ELSE new_player_events
       /\ input_events' =
              IF event.type = "Packet" /\ event.msg.kind = "PlayerInput" /\ has(event.addr)
              THEN Append(input_events, [id |-> player(event.addr).id,
                                         input |-> event.msg.input])
              ELSE input_events
       /\ players' = IF event.type = "Disconnect" THEN SelectSeq(players, other) ELSE players
       /\ n_dropped' = IF event.type = "Packet" /\ event.msg.kind = "PlayerInput"
                          /\ ~has(event.addr)
                       THEN n_dropped + 1 ELSE n_dropped

\* if let Ok(event) = server.net_rx.recv(): the call waits for an event
update_network_recv ==
    /\ sys = "network_receive"
    /\ d_pc = "draining"
    /\ d_seen = <<>>
    /\ RecvReturnsWhenReady(net_rx)
    /\ update_network_match(Head(net_rx))
    /\ d_seen' = Append(d_seen, Head(net_rx))
    /\ net_rx' = Tail(net_rx)
    /\ UNCHANGED <<tx_last, addr_to_player, player_to_entity, player_id_counter,
                   outgoing_packets, net_tx, sys, n_events, last_tick, applied_log,
                   d_pc, d_start>>
    /\ UNCHANGED <<client_vars, seq_vars, trim_vars, recon_vars, state_vars>>

\* the function returns after the one event
update_network_return ==
    /\ sys = "network_receive"
    /\ d_pc = "draining"
    /\ d_seen # <<>>
    /\ d_pc' = "idle"
    /\ sys' = "handle_player_input"
    /\ UNCHANGED <<net_rx, new_player_events, input_events, players, addr_to_player,
                   player_to_entity, player_id_counter, outgoing_packets, net_tx,
                   n_events, n_dropped, tx_last, last_tick, applied_log, d_start, d_seen>>
    /\ UNCHANGED <<client_vars, seq_vars, trim_vars, recon_vars, state_vars>>

\* handle_player_input of main.rs prints every PlayerInput event
print_player_input ==
    /\ sys = "handle_player_input"
    /\ input_events' = <<>>
    /\ sys' = "new_player_joined"
    /\ UNCHANGED <<net_rx, new_player_events, players, addr_to_player, player_to_entity,
                   player_id_counter, outgoing_packets, net_tx, n_events, n_dropped,
                   tx_last, last_tick, applied_log>>
    /\ OthersUnchanged

RECURSIVE HandleNewPlayers(_, _)
\* folds the NewPlayer events over [ents, ctr, out]: the players map, the id
\* counter and the sends attempted, in the order of the code.  The map is
\* listed with the newcomer last.
HandleNewPlayers(evs, acc) ==
    IF evs = <<>> THEN acc
    ELSE LET np == Head(evs)
             new_player_id == acc.ctr % U16Mod
             other(p) == p.network_addr # np.addr
             others == SelectSeq(acc.ents, other)
             ents == Append(others, ServerPlayerBundle(new_player_id, np.name, np.addr))
             reply == [kind |-> "ConnectAck"]
             players_vec == [e \in DOMAIN ents |-> NewPlayerPacket(ents[e].name, ents[e].id)]
             full_state_packet == [kind |-> "FullGameState", players |-> players_vec]
             new_player_packet == [kind |-> "NewPlayer", name |-> np.name,
                                   id |-> new_player_id]
             sends ==
               << make_packet("ReliableOrdered", reply, np.addr, "none"),
                  make_packet("ReliableOrdered", full_state_packet, np.addr, "none") >>
               \o [k \in DOMAIN others |->
                     make_packet("ReliableOrdered", new_player_packet,
                                 others[k].network_addr, "none")]
             next == IF Len(acc.ents) >= MAX_PLAYERS THEN acc
                     ELSE [ents |-> ents, ctr |-> acc.ctr + 1, out |-> acc.out \o sends]
         IN HandleNewPlayers(Tail(evs), next)

\* one run of handle_new_player in which the sends numbered in failed return
\* Err: the first of them panics.  server.id_counter += 1 is a u16 addition:
\* past 65535 it panics where overflow is checked and wraps where it is not
\* (wraps), the players map already holding the newcomer.
handle_new_player(failed) ==
    /\ sys = "new_player_joined"
    /\ \E wraps \in BOOLEAN :
         LET r == HandleNewPlayers(new_player_events,
                                   [ents |-> players, ctr |-> player_id_counter,
                                    out |-> <<>>])
             hit == failed \cap DOMAIN r.out
             overflow == r.ctr > U16Max
         IN /\ failed \subseteq DOMAIN r.out
            /\ players' = r.ents
            /\ IF overflow /\ ~wraps
               THEN /\ player_id_counter' = U16Max
                    /\ net_tx' = net_tx
                    /\ sys' = "panicked"
               ELSE /\ player_id_counter' = r.ctr % U16Mod
                    /\ net_tx' = net_tx \o AcceptedUntilFailure(r.out, failed)
                    /\ sys' = IF hit = {} THEN "network_receive" ELSE "panicked"
            /\ tx_last' = [failed |-> failed, dests |-> <<>>]
    /\ new_player_events' = <<>>
    /\ UNCHANGED <<net_rx, input_events, addr_to_player, player_to_entity, outgoing_packets,
                   n_events, n_dropped, last_tick, applied_log>>
    /\ OthersUnchanged

MainInit == ServerInit /\ IdleClient /\ IdleSeq /\ IdleTrim /\ IdleRecon /\ IdleDrain /\ IdleState

\* the steps of the simulation thread with every send accepted
MainTick ==
    \/ (net_tx = <<>> /\ update_network_enter)
    \/ update_network_recv
    \/ update_network_return
    \/ print_player_input
    \/ handle_new_player({})

MainNextSending ==
    \/ PollConnect(MainPeers, MainEvents)
    \/ PollPlayerInput(MainPeers, DrainCounters, DrainAxes, MainEvents)
    \/ PollDisconnect(MainPeers, MainEvents)
    \/ MainTick
    \/ ServerFlush

\* the same loop with the polling thread gone for some of the sends
MainNext ==
    \/ MainNextSending
    \/ \E f \in 1..3 : handle_new_player({f})

MainSpec == MainInit /\ [][MainNext]_vars

\* the fixed timestep keeps running the simulation thread and the socket
\* thread keeps sending; nothing is assumed about arrivals
MainFairSpec == MainInit /\ [][MainNextSending]_vars /\ WF_vars(MainTick) /\ WF_vars(ServerFlush)

\* values the id counter has after that many players have joined; with
\* players leaving again the map is empty at any of them
CounterStarts == {U16Max - 1, U16Max}

CounterInit ==
    /\ net_rx = <<>>
    /\ new_player_events = <<>>
    /\ input_events = <<>>
    /\ players = <<>>
    /\ addr_to_player = EmptyMap
    /\ player_to_entity = EmptyMap
    /\ player_id_counter \in CounterStarts
    /\ ServerInitRest
    /\ IdleClient /\ IdleSeq /\ IdleTrim /\ IdleRecon /\ IdleDrain /\ IdleState

\* the server loop of main.rs late in a long run
CounterSpec == CounterInit /\ [][MainNextSending]_vars

(***************************************************************************)
(* The client alone, its socket delivering whatever reaches the port:      *)
(* packets of the server and of other senders, and the transport's own     *)
(* connection events.                                                      *)
(***************************************************************************)
\* a sender that is not the configured server
Stranger == "a2"

\* what the polling thread can put on the client's inbound channel
ClientArrivals ==
    { PacketEvent(ServerAddr, [kind |-> "ConnectAck", id |-> 0]),
      PacketEvent(ServerAddr, [kind |-> "NewPlayer", name |-> PeerName(Stranger), id |-> 1]),
      PacketEvent(ServerAddr, [kind |-> "Invalid"]),
      PacketEvent(Stranger, [kind |-> "ConnectAck", id |-> 0]),
      [type |-> "Timeout", addr |-> ServerAddr],
      [type |-> "Connect", addr |-> ServerAddr],
      [type |-> "Disconnect", addr |-> ServerAddr] }

ClientPoll ==
    /\ Len(c_net_rx) < MaxRx
    /\ \E ev \in ClientArrivals : c_net_rx' = Append(c_net_rx, ev)
    /\ UNCHANGED <<connected, input_counter, my_id, c_players, c_unprocessed, c_outgoing,
                   c_net_tx, c_events, c_pending, c_sys, c_last_tick, c_trimmed>>
    /\ ServerUnchanged

\* the client's socket sends everything queued
ClientFlush ==
    /\ c_net_tx # <<>>
    /\ c_net_tx' = <<>>
    /\ UNCHANGED <<connected, input_counter, my_id, c_players, c_unprocessed, c_outgoing,
                   c_net_rx, c_events, c_pending, c_sys, c_last_tick, c_trimmed>>
    /\ ServerUnchanged

ClientOnlyInit == IdleServer /\ ClientInit /\ IdleSeq /\ IdleTrim /\ IdleRecon /\ IdleDrain /\ IdleState

ClientOnlyNext ==
    \/ ClientPoll
    \/ ClientFlush
    \/ send_input_to_server
    \/ ClientIdle
    \/ client_network_receive
    \/ handle_connect_ack
    \/ handle_full_game_state
    \/ client_new_player_joined
    \/ handle_lobby_tick
    \/ client_network_send

ClientOnlySpec == ClientOnlyInit /\ [][ClientOnlyNext]_vars

\* values of InputCounter a long-running client passes through: the start
\* and the last but one before the wrap
InputStarts == {0, U16Max - 1}

WrapInit ==
    /\ input_counter \in InputStarts
    /\ ClientInitRest
    /\ IdleServer /\ IdleSeq /\ IdleTrim /\ IdleRecon /\ IdleDrain /\ IdleState

\* the client's tick around the wrap of its counter
WrapNext ==
    \/ \E start \in InputStarts : send_input_to_server_from(start)
    \/ ((\A start \in InputStarts : SentSince(start) >= MaxClientInputs) /\ ClientIdle)
    \/ ClientPoll
    \/ ClientFlush
    \/ client_network_receive
    \/ handle_connect_ack
    \/ handle_full_game_state
    \/ client_new_player_joined
    \/ handle_lobby_tick
    \/ client_network_send

WrapSpec == WrapInit /\ [][WrapNext]_vars

(***************************************************************************)
(* Reconciliation: a client that predicted every input it sent, against    *)
(* the server player that applies them one per tick.                       *)
(***************************************************************************)
RECURSIVE Replay(_, _)
\* the position after integrating every input of q, in order, from pos
Replay(pos, q) == IF q = <<>> THEN pos ELSE Replay(Integrate(pos, Head(q)), Tail(q))

\* reconciliation steps 1 and 3: trim the queue with the acknowledgment,
\* reset to the authoritative position, replay what is left
Reconciled(ack, pos, queue) ==
    LET kept == clear_acknowledged_inputs(queue, ack)
    IN [queue |-> kept, pos |-> Replay(pos, kept)]

\* longest run of unacknowledged inputs
MaxReplayLen == 3
\* LastInputCounter before the run: at creation, at the half boundary and
\* just before the wrap
ReconCounters == {0, max_half, U16Max - 1}
ReconStarts == {<<0, 0>>, <<2, 0 - 1>>}
ReconAxes == {<<I16Max, 0>>, <<I16Min, I16Max>>}

\* consecutive counters after c0, one per axis sample
InputsAfter(c0, axes) ==
    [i \in DOMAIN axes |-> PlayerInputPacket(wrapping_add(c0, i), axes[i][1], axes[i][2])]

ReconInit ==
    /\ \E c0 \in ReconCounters, axes \in SeqsUpTo(ReconAxes, MaxReplayLen) \ {<<>>} :
          /\ r_inputs = InputsAfter(c0, axes)
          /\ r_start \in ReconStarts
          /\ r_server = [ServerPlayerBundle(0, PeerName(ClientAddr), ClientAddr)
                           EXCEPT !.last_input_counter = c0,
                                  !.pos = r_start,
                                  !.unprocessed_inputs = r_inputs]
          /\ r_client = [queue |-> r_inputs, pos |-> Replay(r_start, r_inputs)]
    /\ r_seen = 0 - 1
    /\ IdleServer /\ IdleClient /\ IdleSeq /\ IdleTrim /\ IdleDrain /\ IdleState

\* inputs the server has popped so far
ServerPopped == Len(r_inputs) - Len(r_server.unprocessed_inputs)

\* one run of update_lobby for the player
ReconServerTick ==
    /\ r_server.unprocessed_inputs # <<>>
    /\ r_server' = StepPlayer(r_server)
    /\ UNCHANGED <<r_start, r_inputs, r_client, r_seen>>
    /\ UNCHANGED <<server_vars, client_vars, seq_vars, trim_vars, drain_vars, state_vars>>

\* the client receives the snapshot of the server's current state
Reconcile ==
    /\ r_seen # ServerPopped
    /\ r_client' = Reconciled(r_server.last_input_counter, r_server.pos, r_client.queue)
    /\ r_seen' = ServerPopped
    /\ UNCHANGED <<r_start, r_inputs, r_server>>
    /\ UNCHANGED <<server_vars, client_vars, seq_vars, trim_vars, drain_vars, state_vars>>

ReconNext == ReconServerTick \/ Reconcile

ReconSpec == ReconInit /\ [][ReconNext]_vars

(***************************************************************************)
(* The server with peers that put arbitrary packets on the wire.           *)
(***************************************************************************)
Init == ServerInit /\ IdleClient /\ IdleSeq /\ IdleTrim /\ IdleRecon /\ IdleDrain /\ IdleState

\* the poll thread enqueues between the runs of network_receive
Next ==
    \/ (sys = "network_receive" /\ net_tx = <<>> /\ PollConnect(Addrs, MaxEvents))
    \/ (sys = "network_receive" /\ net_tx = <<>>
           /\ PollPlayerInput(Addrs, WireCounters, WireAxes, MaxEvents))
    \/ (sys = "network_receive" /\ net_tx = <<>> /\ PollDisconnect(Addrs, MaxEvents))
    \/ (net_tx = <<>> /\ network_receive)
    \/ handle_player_input
    \/ update_lobby
    \/ new_player_joined
    \/ send_new_state
    \/ network_send
    \/ ServerFlush

Spec == Init /\ [][Next]_vars

\* one system of the FixedUpdate schedule: the schedule runs every system of
\* the tick in order, tick after tick
ServerTick ==
    \/ (net_tx = <<>> /\ network_receive)
    \/ handle_player_input
    \/ update_lobby
    \/ new_player_joined
    \/ send_new_state
    \/ network_send

\* the schedule keeps running and the poll thread keeps flushing
FairSpec == Spec /\ WF_vars(ServerTick) /\ WF_vars(ServerFlush)

(***************************************************************************)
(* The server with its GameState.  handle_player_input, update_lobby and   *)
(* new_player_joined carry the run condition state_active(Lobby);          *)
(* network_receive, send_new_state and network_send carry none.  The timer *)
(* queues the transition and the state machinery applies it between two    *)
(* runs of the schedule.                                                   *)
(***************************************************************************)
\* a plausible slip: the run condition always true
state_active_always(state) == TRUE

\* the run condition: current_state.0 == state
state_active(state) == game_state = state

\* a system whose run condition is false: the schedule moves on
SkipSystem(from, to) ==
    /\ sys = from
    /\ sys' = to
    /\ UNCHANGED <<net_rx, new_player_events, input_events, players, addr_to_player,
                   player_to_entity, player_id_counter, outgoing_packets, net_tx,
                   n_events, n_dropped, tx_last, last_tick, applied_log>>
    /\ OthersUnchanged

\* .distributive_run_if(state_active(GameState::Lobby)): each system of the
\* set runs when the state is Lobby and is skipped otherwise
lobby_handle_player_input ==
    IF state_active("Lobby") THEN handle_player_input
    ELSE SkipSystem("handle_player_input", "update_lobby")

lobby_update_lobby ==
    IF state_active("Lobby") THEN update_lobby
    ELSE SkipSystem("update_lobby", "new_player_joined")

lobby_new_player_joined ==
    IF state_active("Lobby") THEN new_player_joined
    ELSE SkipSystem("new_player_joined", "send_new_state")

\* in_set(OnUpdate(GameState::Lobby)); `elapsed` is whether the countdown
\* has run out
update_lobby_timer ==
    /\ sys = "network_receive"
    /\ game_state = "Lobby"
    /\ \E elapsed \in BOOLEAN :
          next_state' = IF elapsed /\ game_state = "Lobby" THEN "IntroScreen"
                        ELSE next_state
    /\ UNCHANGED <<game_state, server_vars, client_vars, seq_vars, trim_vars,
                   recon_vars, drain_vars>>

\* the queued transition is taken: OnExit(Lobby) runs close_lobby, which
\* prints, and the state is replaced
apply_state_transition ==
    /\ sys = "network_receive"
    /\ next_state # "None"
    /\ game_state' = next_state
    /\ next_state' = "None"
    /\ UNCHANGED <<server_vars, client_vars, seq_vars, trim_vars, recon_vars, drain_vars>>

LobbyNext ==
    \/ (sys = "network_receive" /\ net_tx = <<>> /\ PollConnect(Addrs, MaxEvents))
    \/ (sys = "network_receive" /\ net_tx = <<>>
           /\ PollPlayerInput(Addrs, WireCounters, WireAxes, MaxEvents))
    \/ (sys = "network_receive" /\ net_tx = <<>> /\ PollDisconnect(Addrs, MaxEvents))
    \/ (net_tx = <<>> /\ network_receive)
    \/ lobby_handle_player_input
    \/ lobby_update_lobby
    \/ lobby_new_player_joined
    \/ send_new_state
    \/ network_send
    \/ ServerFlush
    \/ update_lobby_timer
    \/ apply_state_transition

LobbySpec == Init /\ [][LobbyNext]_vars

(***************************************************************************)
(* One client and the server, joined by the transport, and one more peer.  *)
(* A tick reads its inbound channel in its first system and writes its     *)
(* outbound channel in its last, so the systems of the two ticks are not   *)
(* interleaved: a tick starts when the other side is between ticks.        *)
(***************************************************************************)
\* events the other peer puts on the wire in one run
MaxPeerEvents == 2
OtherPeers == Addrs \ {ClientAddr}
PeerCounters == {1}
PeerAxes == {<<I16Min, I16Max>>}

ServerBetweenTicks == sys = "network_receive"
ClientBetweenTicks == c_sys = "send_input_to_server"

\* both sides between ticks and nothing left to transmit.  The two
\* transmit steps and the peer's arrivals touch different channels, so
\* they are taken in one order: server packets, client packets, arrivals.
Quiet == ServerBetweenTicks /\ ClientBetweenTicks /\ net_tx = <<>> /\ c_net_tx = <<>>

SyncInit == ServerInit /\ ClientInit /\ IdleSeq /\ IdleTrim /\ IdleRecon /\ IdleDrain /\ IdleState

SyncNext ==
    \/ (Quiet /\ PollConnect(OtherPeers, MaxPeerEvents))
    \/ (Quiet /\ PollPlayerInput(OtherPeers, PeerCounters, PeerAxes, MaxPeerEvents))
    \/ (ClientBetweenTicks /\ net_tx = <<>> /\ network_receive)
    \/ handle_player_input
    \/ update_lobby
    \/ new_player_joined
    \/ send_new_state
    \/ network_send
    \/ (ServerBetweenTicks /\ c_net_tx = <<>> /\ send_input_to_server)
    \/ (ServerBetweenTicks /\ c_net_tx = <<>> /\ ClientIdle)
    \/ client_network_receive
    \/ handle_connect_ack
    \/ handle_full_game_state
    \/ client_new_player_joined
    \/ handle_lobby_tick
    \/ client_network_send
    \/ (ServerBetweenTicks /\ ClientBetweenTicks /\ ServerTransmit)
    \/ (ServerBetweenTicks /\ ClientBetweenTicks /\ net_tx = <<>> /\ ClientTransmit)

SyncSpec == SyncInit /\ [][SyncNext]_vars

(***************************************************************************)
(* Properties.                                                             *)
(***************************************************************************)
Lic(e) == players[e].last_input_counter
Queue(e) == players[e].unprocessed_inputs
AfterUpdateLobby == sys = "new_player_joined"

\* C1: LastInputCounter never regresses.  In every step every existing
\* entity stays, and its LastInputCounter either keeps its value or, in
\* update_lobby only, moves to a sequentially greater value.
C1_LastInputCounterNeverRegresses ==
    [][\A e \in DOMAIN players :
         /\ e \in DOMAIN players'
         /\ \/ players'[e].last_input_counter = Lic(e)
            \/ /\ sys = "update_lobby"
               /\ sequentially_greater_than(players'[e].last_input_counter, Lic(e))]_vars

\* an input with counter 0 was applied: LastInputCounter went past the wrap
\* back to 0, its value at spawn
C1_Witness ==
    \E e \in DOMAIN players :
        /\ AfterUpdateLobby
        /\ last_tick[e].outcome = "applied"
        /\ Lic(e) = 0

\* C2: at most one input per player per tick.  A run of update_lobby leaves
\* each queue as it was or without its front entry, and each position as
\* it was or one step of that front entry further.
C2_OneInputPerTick ==
    [][sys = "update_lobby" =>
         \A e \in DOMAIN players :
            /\ players'[e].unprocessed_inputs =
                 IF Queue(e) = <<>> THEN <<>> ELSE Tail(Queue(e))
            /\ \/ players'[e].pos = players[e].pos
               \/ /\ Queue(e) # <<>>
                  /\ players'[e].pos = Integrate(players[e].pos, Head(Queue(e)))
            /\ Len(players'[e].position_history) <= Len(players[e].position_history) + 1]_vars

\* a run that found two inputs queued for a player, applied the first and
\* left the second
C2_Witness ==
    \E e \in DOMAIN players :
        /\ AfterUpdateLobby
        /\ last_tick[e].queued >= 2
        /\ last_tick[e].outcome = "applied"
        /\ Len(Queue(e)) = last_tick[e].queued - 1
        /\ sequentially_greater_than(Head(Queue(e)).counter, Lic(e))

\* C3: stale input rejection.  When LastInputCounter is sequentially >= the
\* counter of the front input, update_lobby only removes that input:
\* position, LastInputCounter and PositionHistory stay.
C3_StaleInputRejected ==
    [][sys = "update_lobby" =>
         \A e \in DOMAIN players :
            (/\ Queue(e) # <<>>
             /\ sequentially_greater_than_or_equal_to(Lic(e), Head(Queue(e)).counter))
            => /\ players'[e].pos = players[e].pos
               /\ players'[e].last_input_counter = Lic(e)
               /\ players'[e].position_history = players[e].position_history
               /\ players'[e].unprocessed_inputs = Tail(Queue(e))]_vars

\* a replay: an input whose counter had been applied before was popped
\* again and discarded
C3_Witness ==
    \E e \in DOMAIN players :
        /\ AfterUpdateLobby
        /\ last_tick[e].outcome = "stale"
        /\ Lic(e) # 0
        /\ Lic(e) \in applied_log[e]
        /\ players[e].pos # <<0, 0>>

\* C4: sequence trichotomy.  Exactly one of greater, equal, less holds;
\* less is the complement of greater-or-equal; greater-or-equal is equal
\* or greater.
C4_Trichotomy ==
    \A r \in cmp :
        /\ Cardinality({k \in {"gt", "eq", "lt"} :
                          \/ (k = "gt" /\ r.gt)
                          \/ (k = "eq" /\ sa = sb)
                          \/ (k = "lt" /\ r.lt)}) = 1
        /\ r.lt = ~r.ge
        /\ r.ge = (sa = sb \/ r.gt)

\* a pair exactly max_half apart was compared
C4_Witness == cmp # {} /\ sa - sb = max_half

\* C5: sequentially_greater_than(a, b) = sequentially_less_than(b, a).
C5_GreaterMirrorsLess == \A r \in cmp : r.gt = r.lt_rev

\* a pair across the wrap was compared: the smaller number is the greater
C5_Witness == \E r \in cmp : r.gt /\ sa < sb

\* C6: wraparound successors are greater.  For k in 1..max_half the
\* wrapping sum a + k is sequentially greater than a; 0 >= 65535,
\* 100 > 90 and 10 > 60000.
C6_SuccessorsGreater ==
    /\ \A r \in cmp : (sk >= 1 /\ sk <= max_half) => r.succ_gt
    /\ \A r \in cmp : (sa = 0 /\ sb = U16Max) => r.ge
    /\ cmp # {} => /\ sequentially_greater_than(100, 90)
                   /\ sequentially_greater_than(10, 60000)

\* the farthest successor, max_half ahead, taken across the wrap
C6_Witness == cmp # {} /\ sk = max_half /\ wrapping_add(sa, sk) < sa

\* the queue of test_clear: counters 0..29
TestQueue == [i \in 1..30 |-> PlayerInputPacket(i - 1, 0, 0)]

\* C7: clear_acknowledged_inputs removes exactly the longest acknowledged
\* prefix and keeps the rest as it was; u16::MAX against counters 0..29
\* removes nothing.
C7_LongestAckedPrefix ==
    /\ tphase = 1 =>
         LET n == Len(tq0) - Len(tq)
         IN /\ n >= 0
            /\ tq = SubSeq(tq0, n + 1, Len(tq0))
            /\ \A i \in 1..n :
                 sequentially_greater_than_or_equal_to(tack, tq0[i].counter)
            /\ n < Len(tq0) =>
                 ~sequentially_greater_than_or_equal_to(tack, tq0[n + 1].counter)
    /\ tphase = 1 => clear_acknowledged_inputs(TestQueue, U16Max) = TestQueue

\* two entries were removed and the third, not acknowledged, stopped the loop
C7_Witness == tphase = 1 /\ Len(tq0) = 3 /\ Len(tq) = 1

\* C8: trimming is idempotent.  The second application with the same ack
\* changes nothing, and an empty queue stays empty.
C8_TrimIdempotent ==
    /\ tphase = 2 => tq = tq1
    /\ (tphase >= 1 /\ tq0 = <<>>) => tq = <<>>

\* trimmed twice: the first application removed entries and left some
C8_Witness == tphase = 2 /\ Len(tq1) < Len(tq0) /\ tq1 # <<>>

\* the server's entities spawned for the client's address
ClientEntities == {e \in DOMAIN players : players[e].network_addr = ClientAddr}

\* C9 (as claimed): acknowledgment precision.  Every input the client has
\* trimmed from its queue with a LobbyTick's last_input_counter has been
\* applied by the server to that player.
C9_AckPrecision ==
    \A c \in c_trimmed : \E e \in ClientEntities : c \in applied_log[e]

\* C9 (amended): every input the client has trimmed has a counter that is
\* sequentially <= a value the player's LastInputCounter has held on the
\* server: the counter of an applied input, or the 0 it is created with.
C9_AckCoversTrimmed ==
    \A c \in c_trimmed :
        \E e \in ClientEntities :
            \E a \in applied_log[e] \cup {0} :
                sequentially_greater_than_or_equal_to(a, c)

\* the client trimmed an input that the server had applied, together with
\* an earlier one that never reached the server
C9_Witness ==
    \E c \in c_trimmed : \E e \in ClientEntities :
        /\ c \in applied_log[e]
        /\ players[e].pos # <<0, 0>>
        /\ c_trimmed \ applied_log[e] # {}

\* C10: reconciliation.  After a LobbyTick is handled, every remote player
\* the client shows is at its snapshot position, and the local player is at
\* its snapshot position followed by a replay of the inputs left in the
\* trimmed queue.
C10_Reconciliation ==
    (c_sys = "network_send" /\ c_last_tick # <<>>) =>
        LET listed == c_last_tick[1].players
        IN \A i \in DOMAIN listed :
              (listed[i].id \in DOMAIN c_players /\ listed[i].id \notin c_pending) =>
                 c_players[listed[i].id] =
                    IF listed[i].id = my_id
                    THEN Replay(listed[i].pos, c_unprocessed)
                    ELSE listed[i].pos

\* C11: reconciliation convergence.  After the server has applied the first
\* K of the client's N unacknowledged inputs, resetting to the server's
\* position and replaying inputs K+1..N gives the position that predicting
\* all N inputs from the start position gave.
C11_ReconciliationConverges ==
    r_seen >= 0 =>
        /\ r_client.queue = SubSeq(r_inputs, r_seen + 1, Len(r_inputs))
        /\ r_client.pos = Replay(r_start, r_inputs)

\* reconciled with some inputs applied and some left to replay, the
\* counters running across the wrap
C11_Witness ==
    /\ r_seen >= 1
    /\ r_seen < Len(r_inputs)
    /\ r_server.pos # r_start
    /\ r_client.pos # r_server.pos
    /\ r_server.last_input_counter = U16Max
    /\ r_client.queue[1].counter = 0

\* the packets a step has put on the server's outbound channel
Sent == SubSeq(net_tx', Len(net_tx) + 1, Len(net_tx'))
\* the logical messages a step has emitted
Emitted == SubSeq(outgoing_packets', Len(outgoing_packets) + 1, Len(outgoing_packets'))
\* addresses of the players whose id is `id`
AddrsOfId(id) == {players[e].network_addr : e \in {x \in DOMAIN players : players[x].id = id}}
\* how many packets of a sequence carry `payload` to `addr`
Copies(packets, payload, addr) ==
    Cardinality({i \in DOMAIN packets :
                   packets[i].payload = payload /\ packets[i].addr = addr})

\* C12: for every Connect the server emits three messages in this order:
\* ConnectAck with the new id and FullGameState, both to the new peer only,
\* then NewPlayer{name, id}, which reaches every other roster address once
\* per player there and never the new peer's address.
C12_JoinMessages ==
    [][/\ sys = "new_player_joined" =>
            /\ Len(Emitted) = 3 * Len(new_player_events)
            /\ \A i \in DOMAIN new_player_events :
                  LET np == new_player_events[i]
                      id == player_id_counter + i - 1
                      ack == Emitted[3 * i - 2]
                      full == Emitted[3 * i - 1]
                      new == Emitted[3 * i]
                  IN /\ ack.packet.kind = "ConnectAck" /\ ack.packet.id = id
                     /\ ack.destination = [kind |-> "Single", addr |-> np.addr]
                     /\ full.packet.kind = "FullGameState"
                     /\ full.destination = [kind |-> "Single", addr |-> np.addr]
                     /\ new.packet = [kind |-> "NewPlayer", name |-> np.name, id |-> id]
                     /\ new.destination.kind = "BroadcastToAllExcept"
                     /\ new.destination.addr = np.addr
       /\ sys = "network_send" =>
            \A i \in DOMAIN Sent :
               LET packet == Sent[i]
               IN /\ packet.payload.kind = "ConnectAck" =>
                       /\ AddrsOfId(packet.payload.id) = {packet.addr}
                       /\ Copies(Sent, packet.payload, packet.addr) = 1
                       /\ i < Len(Sent) /\ Sent[i + 1].payload.kind = "FullGameState"
                       /\ Sent[i + 1].addr = packet.addr
                  /\ packet.payload.kind = "FullGameState" =>
                       /\ i > 1 /\ Sent[i - 1].payload.kind = "ConnectAck"
                  /\ packet.payload.kind = "NewPlayer" =>
                       packet.addr \notin AddrsOfId(packet.payload.id)
       /\ sys = "network_send" =>
            \A k \in DOMAIN outgoing_packets :
               LET message == outgoing_packets[k]
               IN message.packet.kind = "NewPlayer" =>
                    \A e \in DOMAIN players :
                       LET addr == players[e].network_addr
                       IN Copies(Sent, message.packet, addr) =
                            IF addr \in AddrsOfId(message.packet.id) THEN 0
                            ELSE Cardinality({x \in DOMAIN players :
                                                players[x].network_addr = addr})]_vars

\* a newcomer's three messages are on the wire: its ConnectAck and
\* FullGameState to itself and its NewPlayer to a player at another address
C12_Witness ==
    \E i, j \in DOMAIN net_tx :
        /\ net_tx[i].payload.kind = "ConnectAck"
        /\ net_tx[i + 1].payload.kind = "FullGameState"
        /\ net_tx[j].payload.kind = "NewPlayer"
        /\ j > i + 1
        /\ net_tx[j].payload.id = net_tx[i].payload.id
        /\ net_tx[j].addr # net_tx[i].addr

\* the join messages among the packets a step has sent
JoinSent ==
    LET join(packet) == packet.payload.kind \in {"ConnectAck", "FullGameState", "NewPlayer"}
    IN SelectSeq(Sent, join)
SentKinds(kind) == {i \in DOMAIN Sent : Sent[i].payload.kind = kind}

C15_Capacity ==
    [][/\ (sys = "new_player_joined" /\ Len(players) >= MAX_PLAYERS) =>
            UNCHANGED <<players, player_id_counter, addr_to_player, player_to_entity,
                        outgoing_packets>>
       /\ Len(players') <= MAX_PLAYERS]_vars

\* C16: one player per address.  A Connect from an address that already has
\* a player allocates no id and creates no player, so no two player
\* entities have the same address.
C16_OnePlayerPerAddress ==
    [][/\ sys = "new_player_joined" =>
            LET registered == {players[e].network_addr : e \in DOMAIN players}
                fresh == {i \in DOMAIN new_player_events :
                            new_player_events[i].addr \notin registered}
            IN /\ Len(players') <= Len(players) + Cardinality(fresh)
               /\ player_id_counter' <= player_id_counter + Cardinality(fresh)
       /\ \A e1, e2 \in DOMAIN players' :
             players'[e1].network_addr = players'[e2].network_addr => e1 = e2]_vars

\* C17: a PlayerInput packet whose sender address is not in AddrToPlayer at
\* the moment network_receive drains it produces no PlayerInput event and
\* changes no player: the events added by the run are exactly the inputs of
\* registered senders, in arrival order, tagged with the sender's id.
C17_UnregisteredInputDropped ==
    /\ [][(sys = "network_receive" /\ sys' = "handle_player_input") =>
         LET IsInput(i) == /\ net_rx[i].type = "Packet"
                           /\ net_rx[i].msg.kind = "PlayerInput"
             Registered(i) ==
                 /\ net_rx[i].addr \in DOMAIN addr_to_player
                 /\ ~ \E j \in 1..(i - 1) : /\ net_rx[j].type = "Disconnect"
                                            /\ net_rx[j].addr = net_rx[i].addr
             indices == [i \in 1..Len(net_rx) |-> i]
             IsKept(i) == IsInput(i) /\ Registered(i)
             kept == SelectSeq(indices, IsKept)
             lost == {i \in 1..Len(net_rx) : IsInput(i) /\ ~Registered(i)}
             before == Len(input_events)
         IN /\ Len(input_events') = before + Len(kept)
            /\ SubSeq(input_events', 1, before) = input_events
            /\ \A k \in 1..Len(kept) :
                   input_events'[before + k] =
                       [id |-> addr_to_player[net_rx[kept[k]].addr],
                        input |-> net_rx[kept[k]].msg.input]
            /\ n_dropped' = n_dropped + Cardinality(lost)
            /\ players' = players
            /\ player_to_entity' = player_to_entity
            /\ outgoing_packets' = outgoing_packets]_vars
    /\ [][(sys = "handle_player_input" /\ sys' = "update_lobby") =>
            /\ Len(players') = Len(players)
            /\ \A e \in DOMAIN players :
                   LET mine == {k \in DOMAIN input_events :
                                  /\ input_events[k].id \in DOMAIN player_to_entity
                                  /\ player_to_entity[input_events[k].id] = e}
                   IN /\ Len(players'[e].unprocessed_inputs)
                           = Len(Queue(e)) + Cardinality(mine)
                      /\ players'[e].pos = players[e].pos
                      /\ players'[e].last_input_counter = Lic(e)]_vars

\* two inputs were discarded by the run that just ended, one player exists and
\* nothing was forwarded to it
C17_Witness ==
    /\ sys = "handle_player_input"
    /\ n_dropped = 2
    /\ n_events = 3
    /\ input_events = <<>>
    /\ Len(players) = 1
    /\ players[1].unprocessed_inputs = <<>>
    /\ players[1].last_input_counter = 0

\* C18: on the client Connect precedes all input traffic.  No Connect is
\* queued behind a PlayerInput, and every PlayerInput packet handed to the
\* socket was handed over while connected was true: an input produced before
\* the ConnectAck was processed is never sent.
C18_ConnectPrecedesInput ==
    /\ \A i \in DOMAIN c_net_tx : \A j \in DOMAIN c_net_tx :
           (c_net_tx[i].payload.kind = "PlayerInput"
              /\ c_net_tx[j].payload.kind = "Connect") => j < i
    /\ \A i \in DOMAIN c_net_tx :
           c_net_tx[i].payload.kind = "PlayerInput" => connected

\* C19: personalized snapshots.  A run of send_new_state emits exactly one
\* LobbyTick per player, in roster order, addressed Single(that player's
\* address), whose last_input_counter is that player's LastInputCounter at
\* that moment and whose player list is the full roster (id and position of
\* every player), the same list in every packet of the run.
C19_PersonalizedSnapshots ==
    [][(sys = "send_new_state" /\ sys' = "network_send") =>
         /\ Len(Emitted) = Len(players)
         /\ \A e \in DOMAIN players :
               /\ Emitted[e].destination.kind = "Single"
               /\ Emitted[e].destination.addr = players[e].network_addr
               /\ Emitted[e].packet.kind = "LobbyTick"
               /\ Emitted[e].packet.last_input_counter = Lic(e)
               /\ Len(Emitted[e].packet.players) = Len(players)
               /\ \A i \in DOMAIN players :
                     /\ Emitted[e].packet.players[i].id = players[i].id
                     /\ Emitted[e].packet.players[i].pos = players[i].pos
               /\ Emitted[e].packet.players = Emitted[1].packet.players]_vars

\* a run has just emitted two snapshots that acknowledge different counters
\* and carry the same two-player roster
C19_Witness ==
    /\ sys = "network_send"
    /\ Len(players) = 2
    /\ Lic(1) # Lic(2)
    /\ Len(outgoing_packets) >= 2
    /\ LET n == Len(outgoing_packets)
       IN /\ outgoing_packets[n - 1].packet.kind = "LobbyTick"
          /\ outgoing_packets[n].packet.kind = "LobbyTick"
          /\ outgoing_packets[n - 1].packet.last_input_counter = Lic(1)
          /\ outgoing_packets[n].packet.last_input_counter = Lic(2)
          /\ outgoing_packets[n - 1].destination.addr # outgoing_packets[n].destination.addr
          /\ Len(outgoing_packets[n].packet.players) = 2

C21_QueuesCounterOrdered ==
    /\ \A e \in DOMAIN players : \A i \in 2..Len(Queue(e)) :
           sequentially_greater_than(Queue(e)[i].counter, Queue(e)[i - 1].counter)
    /\ \A i \in 2..Len(c_unprocessed) :
           sequentially_greater_than(c_unprocessed[i].counter, c_unprocessed[i - 1].counter)

\* C21: every server-side queue is in arrival order.  A step either leaves a
\* queue alone, or appends at its back the inputs of this player's events in
\* the order they were received (handle_player_input), or removes its front
\* entry (update_lobby); the counters are as increasing as the arrivals were.
C21_QueuesInArrivalOrder ==
    [][\A e \in DOMAIN players :
          LET q == Queue(e)
              r == players'[e].unprocessed_inputs
              mine(ev) == /\ ev.id \in DOMAIN player_to_entity
                          /\ player_to_entity[ev.id] = e
              arrived == SelectSeq(input_events, mine)
          IN \/ r = q
             \/ /\ sys = "handle_player_input"
                /\ r = q \o [k \in DOMAIN arrived |-> arrived[k].input]
             \/ /\ sys = "update_lobby"
                /\ q # <<>>
                /\ r = Tail(q)]_vars

\* a queue holds two entries whose counters arrived in decreasing order
C21_Witness ==
    /\ sys = "update_lobby"
    /\ \E e \in DOMAIN players :
          /\ Len(Queue(e)) = 2
          /\ sequentially_less_than(Queue(e)[2].counter, Queue(e)[1].counter)

\* a run of network_send in which no send attempt failed
SendRun == sys = "network_send" /\ sys' = "network_receive" /\ tx_last'.failed = {}
\* the k-th outgoing message is the only one of the run with its payload
OwnPayload(k) ==
    \A j \in DOMAIN outgoing_packets :
        j # k => outgoing_packets[j].packet # outgoing_packets[k].packet
\* the packets the run enqueued for the k-th outgoing message
SentFor(k) ==
    LET mine(packet) == packet.payload = outgoing_packets[k].packet
    IN SelectSeq(Sent, mine)
\* roster entries whose address is a
RosterEntries(a) == {e \in DOMAIN players : players[e].network_addr = a}

\* C22: fan-out of BroadcastToAllExcept(X).  The packets enqueued for the
\* message are as many as the roster entries whose address differs from X,
\* none is addressed to X, and every other roster address gets one packet
\* per roster entry; with X in the roster once and no address twice, that is
\* one packet for each other address and roster size minus 1 in all.
C22_BroadcastExceptFanOut ==
    [][SendRun =>
         \A k \in DOMAIN outgoing_packets :
            (outgoing_packets[k].destination.kind = "BroadcastToAllExcept" /\ OwnPayload(k)) =>
               LET X == outgoing_packets[k].destination.addr
                   sent == SentFor(k)
               IN /\ Len(sent) = Cardinality(DOMAIN players \ RosterEntries(X))
                  /\ \A i \in DOMAIN sent : sent[i].addr # X
                  /\ \A a \in Addrs \ {X} :
                        Cardinality({i \in DOMAIN sent : sent[i].addr = a})
                            = Cardinality(RosterEntries(a))
                  /\ (Cardinality(RosterEntries(X)) = 1
                        /\ \A a \in Addrs : Cardinality(RosterEntries(a)) <= 1)
                       => /\ Len(sent) = Len(players) - 1
                          /\ \A a \in Addrs \ {X} :
                                RosterEntries(a) # {} =>
                                   Cardinality({i \in DOMAIN sent : sent[i].addr = a}) = 1]_vars

\* BroadcastToAllExcept(a1) was dispatched alone to the roster a1, a2 and one
\* packet, addressed to a2, is on the outbound queue
C22_Witness ==
    /\ sys = "network_receive"
    /\ tx_last = [failed |-> {}, dests |-> <<BroadcastToAllExcept("a1")>>]
    /\ Len(players) = 2
    /\ players[1].network_addr = "a1"
    /\ players[2].network_addr = "a2"
    /\ Len(net_tx) = 1
    /\ net_tx[1].addr = "a2"

C27_SendFailureNonFatal ==
    /\ [][(sys = "network_send" /\ sys' # sys) =>
            LET attempts == SendAll(outgoing_packets)
                failed == tx_last'.failed \cap DOMAIN attempts
                Before(i) == Cardinality({f \in failed : f < i})
            IN /\ sys' = "network_receive"
               /\ outgoing_packets' = <<>>
               /\ Len(Sent) = Len(attempts) - Cardinality(failed)
               /\ \A i \in DOMAIN attempts \ failed : Sent[i - Before(i)] = attempts[i]
               /\ SubSeq(net_tx', 1, Len(net_tx)) = net_tx
               /\ players' = players]_vars
    /\ [](sys # "panicked")

\* the receive loop takes an event, and the receive loop ends
LoopTakes == sys = "network_receive" /\ d_pc = "draining" /\ d_seen' # d_seen
LoopEnds == d_pc = "draining" /\ d_pc' = "idle"
\* the Connect packets among the events the run has received
ConnectsOf(events) ==
    LET connect(ev) == ev.type = "Packet" /\ ev.msg.kind = "Connect"
        found == SelectSeq(events, connect)
    IN [i \in DOMAIN found |-> [addr |-> found[i].addr, name |-> found[i].msg.name]]

\* C24: full non-blocking drain.  Each run of network_receive takes the
\* events from the front of the inbound queue one by one, in queue order, and
\* ends only when it has seen the queue empty, whatever the polling thread
\* enqueues meanwhile: the events queued when the run began are a prefix of
\* the events it processed, and none of them is left for a later tick.
C24_FullDrain ==
    /\ [][LoopTakes => /\ net_rx # <<>>
                       /\ d_seen' = Append(d_seen, Head(net_rx))
                       /\ net_rx' = Tail(net_rx)]_vars
    /\ [][LoopEnds => /\ net_rx = <<>>
                      /\ net_rx' = <<>>
                      /\ Len(d_seen) >= Len(d_start)
                      /\ SubSeq(d_seen, 1, Len(d_start)) = d_start
                      /\ new_player_events = ConnectsOf(d_seen)
                      /\ sys' = "handle_player_input"]_vars
    /\ [](d_pc = "draining" =>
            LET all == d_seen \o net_rx
            IN /\ Len(all) >= Len(d_start)
               /\ SubSeq(all, 1, Len(d_start)) = d_start)

\* C25: the simulation tick never waits on the network.  A receive step that
\* has been entered completes and hands over to input handling even when the
\* inbound queue is empty and nothing more arrives, and the rest of the tick
\* then runs through to the start of the next one.
C25_TickNeverWaits ==
    /\ (d_pc = "draining") ~> (d_pc = "idle" /\ sys = "handle_player_input")
    /\ (sys = "handle_player_input") ~> (sys = "network_receive")

\* the receive loop takes a payload that does not decode
InvalidTaken ==
    /\ LoopTakes
    /\ net_rx # <<>>
    /\ Head(net_rx).type = "Packet"
    /\ Head(net_rx).msg = InvalidMsg

\* C26: a malformed or undecodable inbound payload is dropped without
\* effect.  The step of the receive loop that takes it changes neither the
\* players, the event queues, the id counter, the lookup tables nor the
\* outgoing messages, the loop goes on, and the run still ends only with the
\* queue empty and with every event that was queued behind it processed.
C26_MalformedDropped ==
    /\ [][InvalidTaken =>
            /\ UNCHANGED <<players, new_player_events, input_events, player_id_counter,
                           addr_to_player, player_to_entity, outgoing_packets, net_tx,
                           n_dropped>>
            /\ net_rx' = Tail(net_rx)
            /\ sys' = "network_receive"
            /\ d_pc' = "draining"]_vars
    /\ [][LoopEnds =>
            /\ net_rx = <<>>
            /\ \A i \in DOMAIN d_start : i <= Len(d_seen) /\ d_seen[i] = d_start[i]
            /\ new_player_events = ConnectsOf(d_seen)]_vars

\* a run that began with an undecodable payload in front of a Connect has
\* ended: the Connect behind it became the one NewPlayer event
C26_Witness ==
    /\ sys = "handle_player_input"
    /\ d_pc = "idle"
    /\ Len(d_start) = 2
    /\ d_start[1].msg = InvalidMsg
    /\ d_start[2].msg.kind = "Connect"
    /\ d_seen = d_start
    /\ new_player_events = << [addr |-> "a1", name |-> PeerName("a1")] >>
    /\ players = <<>>

\* C28: no 16-bit arithmetic of the server overflows on any sequence of
\* Connect and PlayerInput packets.  Whatever has been received, a run of the
\* join handler ends without a panic and leaves the PlayerId counter at a
\* value that is not below the one it had and not above 65535.
C28_NoOverflow ==
    [][(sys = "new_player_joined" /\ sys' # sys) =>
         /\ sys' # "panicked"
         /\ player_id_counter' >= player_id_counter
         /\ player_id_counter' <= U16Max]_vars

\* C29: the sequence comparisons cannot underflow.  For every pair of
\* 16-bit values, each difference that sequentially_greater_than,
\* sequentially_greater_than_or_equal_to and sequentially_less_than compute is
\* a value of u16: the larger operand is always the one subtracted from.
C29_NoUnderflow ==
    \A r \in cmp : \A d \in r.subs : d >= 0 /\ d <= U16Max

\* 0 against 65535: the one difference computed is 65535 - 0
C29_Witness ==
    /\ sa = 0
    /\ sb = U16Max
    /\ cmp # {}
    /\ \A r \in cmp : r.subs = {U16Max}

\* C30: routing cleanup.  Once a Disconnect or Timeout for a registered
\* address has been processed the address is in no part of the routing
\* state: every address of the player roster is a key of AddrToPlayer, and
\* every message queued for a single address names a key of AddrToPlayer,
\* so no LobbyTick of a later tick goes to an address that has left.
C30_RoutingCleanup ==
    /\ \A e \in DOMAIN players : players[e].network_addr \in DOMAIN addr_to_player
    /\ \A k \in DOMAIN outgoing_packets :
          outgoing_packets[k].destination.kind = "Single" =>
              outgoing_packets[k].destination.addr \in DOMAIN addr_to_player

\* a ConnectAck of the configured server waits in the inbound channel
AckWaiting ==
    \E i \in DOMAIN c_net_rx :
        /\ c_net_rx[i].type = "Packet"
        /\ c_net_rx[i].addr = ServerAddr
        /\ c_net_rx[i].msg.kind = "ConnectAck"

\* C31: the connected flag is false at start and changes only from false to
\* true, in the receive step that processes a ConnectAck from the configured
\* server address; a receive step without such a packet, whatever else it
\* processes, and every other step leave the flag as it was.
C31_ConnectedOnlyByAck ==
    /\ ~connected
    /\ [][connected' # connected =>
            /\ ~connected
            /\ connected'
            /\ c_sys = "network_receive"
            /\ AckWaiting]_vars
    /\ [][(c_sys = "network_receive" /\ c_sys' # c_sys /\ AckWaiting) => connected']_vars

\* the receive step has just taken the server's ConnectAck
C31_Witness ==
    /\ connected
    /\ c_sys = "handle_connect_ack"
    /\ c_events = << [kind |-> "ConnectAck", id |-> 0] >>
    /\ my_id = NoPlayer

\* the step of the client's tick in which send_input_to_server runs
InputTick == c_sys = "send_input_to_server" /\ c_sys' # c_sys /\ c_unprocessed' # c_unprocessed

\* C32: each input-sending tick hands the socket exactly one PlayerInput,
\* whose counter is the InputCounter of that moment, and then adds one to
\* the counter modulo 65536, so that the input after 65535 carries 0; no
\* other step changes the counter.
C32_InputCounterWraps ==
    /\ [][InputTick =>
            /\ Len(c_net_tx') = Len(c_net_tx) + 1
            /\ SubSeq(c_net_tx', 1, Len(c_net_tx)) = c_net_tx
            /\ c_net_tx'[Len(c_net_tx')].payload.kind = "PlayerInput"
            /\ c_net_tx'[Len(c_net_tx')].payload.input.counter = input_counter
            /\ input_counter' = (input_counter + 1) % U16Mod
            /\ input_counter' \in 0..U16Max]_vars
    /\ [][input_counter' # input_counter => InputTick]_vars

\* the inputs 65534, 65535 and 0 have been sent, in that order
C32_Witness ==
    /\ input_counter = 1
    /\ Len(c_unprocessed) = 3
    /\ c_unprocessed[1].counter = U16Max - 1
    /\ c_unprocessed[2].counter = U16Max
    /\ c_unprocessed[3].counter = 0

\* the delivery class the message catalogue gives a message kind
ClassOfKind(kind) ==
    IF kind \in {"Connect", "ConnectAck", "FullGameState", "NewPlayer"}
    THEN "ReliableOrdered" ELSE "UnreliableSequenced"

\* C33: delivery classes are fixed per message kind.  Every Connect,
\* ConnectAck, FullGameState and NewPlayer on the outbound queue of the
\* server or of the client, or waiting as an outgoing message, is
\* ReliableOrdered, and every PlayerInput and LobbyTick is
\* UnreliableSequenced.
C33_DeliveryClasses ==
    /\ \A i \in DOMAIN net_tx : net_tx[i].delivery = ClassOfKind(net_tx[i].payload.kind)
    /\ \A i \in DOMAIN c_net_tx : c_net_tx[i].delivery = ClassOfKind(c_net_tx[i].payload.kind)
    /\ \A i \in DOMAIN outgoing_packets :
          outgoing_packets[i].delivery_type = ClassOfKind(outgoing_packets[i].packet.kind)
    /\ \A i \in DOMAIN c_outgoing :
          c_outgoing[i].delivery_type = ClassOfKind(c_outgoing[i].packet.kind)

\* the server's outbound queue holds the three join messages and a
\* LobbyTick, the client's an input
C33_Witness ==
    /\ {net_tx[i].payload.kind : i \in DOMAIN net_tx}
         = {"ConnectAck", "FullGameState", "NewPlayer", "LobbyTick"}
    /\ \E i \in DOMAIN c_net_tx : c_net_tx[i].payload.kind = "PlayerInput"

\* C34: in-order input streams are fully applied.  The client numbers its
\* inputs 0, 1, 2, .. and the transport delivers them in that order and never
\* twice, so every input of the client that the tick pops from the queue of
\* the client's player is applied: it is never discarded as stale.
C34_InOrderInputsApplied ==
    \A e \in DOMAIN last_tick :
        (e \in DOMAIN players /\ players[e].network_addr = ClientAddr) =>
            last_tick[e].outcome # "stale"

\* C35: the sequence comparison is a cyclic ordering.  For every a, b and
\* k, sequentially_greater_than(a, b) has the value of
\* sequentially_greater_than((a + k) mod 65536, (b + k) mod 65536): the
\* result depends on the wrapping difference of the operands only.
C35_ShiftInvariant ==
    \A r \in cmp : r.gt = r.shift_gt

\* q begins with p
IsPrefix(p, q) == Len(p) <= Len(q) /\ SubSeq(q, 1, Len(p)) = p

\* C36: snapshot history completeness.  A sample stays in its player's
\* PositionHistory until the snapshot step; that step emits one LobbyTick
\* per player and each of them carries, for every player, the whole history
\* as it was when the step began; after the step every history is empty, so
\* no sample is sent in a second round.
C36_HistoryInOneRound ==
    /\ [][sys # "send_new_state" =>
            \A e \in DOMAIN players :
               IsPrefix(players[e].position_history, players'[e].position_history)]_vars
    /\ [][(sys = "send_new_state" /\ sys' # sys) =>
            /\ Len(Emitted) = Len(players)
            /\ \A r \in DOMAIN Emitted :
                  /\ Emitted[r].packet.kind = "LobbyTick"
                  /\ Emitted[r].destination = Single(players[r].network_addr)
                  /\ Len(Emitted[r].packet.players) = Len(players)
                  /\ \A e \in DOMAIN players :
                        /\ Emitted[r].packet.players[e].id = players[e].id
                        /\ Emitted[r].packet.players[e].pos_history
                              = players[e].position_history
            /\ \A e \in DOMAIN players' : players'[e].position_history = <<>>]_vars

\* the snapshot step has just run for two players: both LobbyTicks carry the
\* one sample of the first player's history, which is now cleared
C36_Witness ==
    /\ sys = "network_send"
    /\ Len(players) = 2
    /\ players[1].position_history = <<>>
    /\ players[1].pos # <<0, 0>>
    /\ Len(outgoing_packets) >= 2
    /\ LET n == Len(outgoing_packets)
       IN \A r \in {n - 1, n} :
             /\ outgoing_packets[r].packet.kind = "LobbyTick"
             /\ outgoing_packets[r].packet.players[1].pos_history = << <<0, 0>> >>
             /\ outgoing_packets[r].packet.players[2].pos_history = <<>>

\* ids of the players that joined in the tick whose messages are waiting
JoinedThisTick ==
    {outgoing_packets[k].packet.id :
       k \in {x \in DOMAIN outgoing_packets : outgoing_packets[x].packet.kind = "ConnectAck"}}

\* how many of the packets a step has sent tell `addr` the identity `id`
IdentitySent(id, addr) ==
    Cardinality({i \in DOMAIN Sent :
        /\ Sent[i].addr = addr
        /\ \/ Sent[i].payload.kind = "NewPlayer" /\ Sent[i].payload.id = id
           \/ /\ Sent[i].payload.kind = "FullGameState"
              /\ \E j \in DOMAIN Sent[i].payload.players :
                    Sent[i].payload.players[j].id = id})

\* C37: roster knowledge.  In the tick in which the later of two players
\* joins, the address of each of the two is sent the identity of the other
\* exactly once, in a FullGameState or in a NewPlayer message, also when both
\* join in that tick; in any other tick it is not sent again; and no address
\* is ever sent the identity of its own player.
C37_RosterKnowledge ==
    [][(sys = "network_send" /\ sys' # sys) =>
         \A a \in DOMAIN players :
            /\ IdentitySent(players[a].id, players[a].network_addr) = 0
            /\ \A b \in DOMAIN players \ {a} :
                  IdentitySent(players[b].id, players[a].network_addr) =
                     IF players[a].id \in JoinedThisTick \/ players[b].id \in JoinedThisTick
                     THEN 1 ELSE 0]_vars

\* the inputs among the PlayerInput events that carry the player id `id`
InputsFor(id) ==
    LET mine(ev) == ev.id = id
        found == SelectSeq(input_events, mine)
    IN [i \in DOMAIN found |-> found[i].input]

\* C38: input routing.  A PlayerInput that the receive step accepts carries
\* the id AddrToPlayer holds for the address it came from, and the handler
\* appends it to the queue of the player with that id and to no other
\* queue: every queue grows by exactly the accepted inputs of its own id.
C38_InputRouting ==
    /\ [][(sys = "network_receive" /\ sys' # sys) =>
            \A n \in (Len(input_events) + 1)..Len(input_events') :
               \E i \in DOMAIN net_rx :
                  /\ net_rx[i].type = "Packet"
                  /\ net_rx[i].msg.kind = "PlayerInput"
                  /\ net_rx[i].msg.input = input_events'[n].input
                  /\ net_rx[i].addr \in DOMAIN addr_to_player
                  /\ addr_to_player[net_rx[i].addr] = input_events'[n].id]_vars
    /\ [][(sys = "handle_player_input" /\ sys' # sys) =>
            /\ Len(players') = Len(players)
            /\ \A e \in DOMAIN players :
                  Queue(e)' = Queue(e) \o InputsFor(players[e].id)]_vars

\* the handler has just queued an input from a2 for the player at a2 and
\* nothing for the player at a1
C38_Witness ==
    /\ sys = "update_lobby"
    /\ Len(players) = 2
    /\ players[1].network_addr = "a1"
    /\ players[2].network_addr = "a2"
    /\ Queue(1) = <<>>
    /\ Len(Queue(2)) = 1
    /\ addr_to_player = [a \in {"a1", "a2"} |-> IF a = "a1" THEN players[1].id
                                                            ELSE players[2].id]

\* C39: queue progress.  While the server keeps ticking in the lobby, a
\* run of update_lobby removes the front input of every non-empty queue,
\* no other step removes or reorders anything, and a non-empty queue always
\* leads to a run that pops from it: the input at position n is gone after
\* n runs, applied or discarded.
C39_QueueProgress ==
    /\ [][(sys = "update_lobby" /\ sys' # sys) =>
            \A e \in DOMAIN players :
               Queue(e) # <<>> => Queue(e)' = Tail(Queue(e))]_vars
    /\ [][~(sys = "update_lobby" /\ sys' # sys) =>
            \A e \in DOMAIN players :
               e \in DOMAIN players' /\ IsPrefix(Queue(e), Queue(e)')]_vars
    /\ \A e \in 1..MaxConnects :
          (e \in DOMAIN players /\ Queue(e) # <<>>)
             ~> (/\ sys = "new_player_joined"
                 /\ e \in DOMAIN last_tick
                 /\ last_tick[e].queued > 0
                 /\ last_tick[e].outcome \in {"applied", "stale"})

\* update_lobby has just popped the first of two queued inputs and found it
\* stale; the second moved to the front
C39_Witness ==
    /\ sys = "new_player_joined"
    /\ Len(players) >= 1
    /\ 1 \in DOMAIN last_tick
    /\ last_tick[1].queued = 2
    /\ last_tick[1].outcome = "stale"
    /\ Len(Queue(1)) = 1

\* what the lobby systems own of a player entity
Simulated(e) ==
    [id |-> players[e].id, pos |-> players[e].pos,
     last_input_counter |-> players[e].last_input_counter,
     unprocessed_inputs |-> players[e].unprocessed_inputs]

\* C40: lobby closure freezes the simulation.  GameState starts in Lobby,
\* changes only from Lobby to IntroScreen and never comes back, and once
\* it has left Lobby no step changes the set of players, a position, a
\* LastInputCounter or an UnprocessedInputs queue, whatever traffic arrives.
C40_ClosedLobbyFrozen ==
    /\ game_state = "Lobby"
    /\ [][game_state' # game_state =>
             game_state = "Lobby" /\ game_state' = "IntroScreen"]_vars
    /\ [][game_state # "Lobby" =>
            /\ game_state' # "Lobby"
            /\ DOMAIN players' = DOMAIN players
            /\ \A e \in DOMAIN players : Simulated(e)' = Simulated(e)]_vars

\* the lobby is closed and a run of the schedule has gone past the lobby
\* systems with a Connect and a PlayerInput of a registered player pending:
\* the player's queue and the roster are as they were
C40_Witness ==
    /\ game_state = "IntroScreen"
    /\ sys = "network_send"
    /\ new_player_events # <<>>
    /\ input_events # <<>>
    /\ Len(players) = 1
    /\ input_events[1].id = players[1].id
    /\ Queue(1) = <<>>

====
